---------------------------- MODULE Spec2Model ----------------------------
(***************************************************************************)
(* SafeTrade: the community alert classifier (backend, ComunidadController),*)
(* the admin portal's catalog cache (AdminAPIService) and the report/filter *)
(* transformer (ReportTransformer); the community trends and alert          *)
(* endpoints (getTendencias, getAlertaComunitaria); the mobile report list  *)
(* and its popup (ReportsListViewModel); the create-admin script; the       *)
(* mobile login rate limiting (AuthenticationService); the admin session    *)
(* (AuthContext); the AnonymousAuthGuard; user registration.                *)
(*                                                                          *)
(* Optional values (TypeScript `x?: T`, `T | null`) are sequences of length *)
(* 0 or 1: <<>> is undefined/null, <<v>> is the value v.                    *)
(* Percentages of a trend summary are in tenths of a percent (400 = 40.0%). *)
(***************************************************************************)
EXTENDS Integers, Sequences, FiniteSets, TLC

VARIABLES
    \* --- community alert (comunidad.module.ts) ---
    analytics,      \* analytics.community_overview: total_reports, highest_impact_count
    tendencias,     \* trend summary: attack_trends (percentages, tenths of a percent)
    alertPc,        \* "request" before determineAlertLevel has run, "done" after
    nivel,          \* the level returned, "none" before
    \* --- report/filter transformer (AdminAPIService.ts, ReportTransformer) ---
    catalogData,        \* ReportTransformer.catalogData, the catalog snapshot
    trPc,               \* the transformer method to run next, "idle" or "done"
    normalizedFilters,  \* argument of toLegacyFilters (optional)
    legacyFilters,      \* result of toLegacyFilters / argument of fromLegacyFilters
    normalized,         \* result of fromLegacyFilters (optional)
    report,             \* argument of toLegacyReport / toLegacyReportSummary
    legacyReport,       \* result of toLegacyReport (optional)
    legacyReportSummary, \* result of toLegacyReportSummary (optional)
    \* --- catalog cache (AdminAPIService.ts, AdminAPIService) ---
    clock,          \* Date.now(), milliseconds
    catalogCache,   \* AdminAPIService.catalogCache (optional catalog name)
    catalogMaps,    \* AdminAPIService.catalogMaps (optional: maps of the named catalog)
    lastCacheTime,  \* AdminAPIService.lastCacheTime
    calls,          \* the calls made of the service, in the order they started
    filler,         \* the call whose fetch filled the cache last; 0: none, or cleared
    lastFetchDone,  \* clock when a fetch last succeeded; -1: never
    \* --- trend aggregator (GET /comunidad/tendencias) ---
    windowReports,  \* the reports the store holds in the window asked for
    trendPc,        \* "request" before getTendencias has run, "done" after
    trendResponse,  \* what getTendencias returned (optional)
    \* --- community alert endpoint (GET /comunidad/alerta) ---
    alertaTendencias, \* what comunidadService.getTendencias('7days') yields (optional: none = it throws)
    alertaAnalytics,  \* what comunidadService.getAnalytics() yields (optional: none = it throws)
    alertaPc,         \* "request" before getAlertaComunitaria has run, "done" after
    alertaResponse,   \* what getAlertaComunitaria returned (optional)
    \* --- mobile report list (ReportsListViewModel.swift): reports and filters ---
    serverReports,    \* the reports the backend holds (what getAllReports delivers)
    authenticated,    \* AuthenticationRepository.shared.hasValidToken()
    allReports,       \* ReportsListViewModel.allReports
    userReports,      \* ReportsListViewModel.userReports
    filteredReports,  \* ReportsListViewModel.filteredReports
    selectedFilter,   \* ReportsListViewModel.selectedFilter (the raw value)
    searchQuery,      \* ReportsListViewModel.searchQuery (a sequence of characters)
    isLoading,        \* ReportsListViewModel.isLoading
    loadsPending,     \* loadReports calls whose publishers have not delivered yet
    debouncePending,  \* a $searchQuery value waits in the 300 ms debounce
    filtersApplied,   \* applyFilters has run since selectedFilter and searchQuery were last set
    \* --- mobile report list (ReportsListViewModel.swift): community alert popup ---
    communityAlert,        \* ReportsListViewModel.communityAlert (optional)
    communityAlertLoading, \* ReportsListViewModel.communityAlertLoading
    communityAlertError,   \* ReportsListViewModel.communityAlertError (optional)
    showingPopup,          \* ReportsListViewModel.showingPopup
    dismissTimer,          \* TRUE while the 5 s auto-hide timer is scheduled
    alertTasks,            \* the loadCommunityAlert tasks under way, each "scheduled" or "requesting"
    popupOp,               \* the operation that ran last
    \* --- create-admin script (backend/scripts/create-admin.ts) ---
    adminUsers,     \* the rows of the admin_users table, in insertion order
    runs,           \* the runs of the script: position, what was entered, how it ended
    \* --- mobile login rate limiting (AuthenticationService.swift) ---
    authClock,               \* Date(), in minutes
    failedLoginAttempts,     \* AuthenticationService.failedLoginAttempts
    lastFailedLoginAttempt,  \* AuthenticationService.lastFailedLoginAttempt (optional)
    isLockedOutFromLogin,    \* AuthenticationService.isLockedOutFromLogin
    lockoutTimer,            \* the lastAttempt the running lockout timer holds (optional)
    loginCalls,              \* login calls made
    lastLogin,               \* how the last login call ended (optional)
    invalidInARow,           \* login calls in a row that ended in invalidCredentials
    \* --- admin session (AuthContext.tsx, AdminAPIService.ts) ---
    adminToken,         \* AdminAPIService.token (optional)
    localStorageToken,  \* localStorage 'admin_token' (optional)
    authState,          \* the AuthContext reducer state
    checkPc,            \* checkExistingAuth: "mount", "validating" or "done"
    loginsInFlight,     \* login calls waiting for the answer of POST /admin/login
    loginsMade,         \* login calls made
    sessionActive,      \* a login has succeeded and logout has not been called since
    \* --- anonymous-or-authenticated guard (hash.util.ts, AnonymousAuthGuard) ---
    authorization,      \* req.headers.authorization (optional), a string of characters
    reqUser,            \* req.user (optional)
    guardPc,            \* "request", "guarded" after canActivate, "handled"
    canActivateResult,  \* what canActivate returned (optional)
    guardedResponse,    \* the response of the guarded controller method (optional)
    \* --- user registration (users.controller.ts, UsersController.createUser) ---
    users,          \* the rows of the users table, in insertion order
    registrations   \* the POST /users/register requests: position, email, answer

alertVars == <<analytics, tendencias, alertPc, nivel>>

trVars == <<catalogData, trPc, normalizedFilters, legacyFilters, normalized,
            report, legacyReport, legacyReportSummary>>

catVars == <<clock, catalogCache, catalogMaps, lastCacheTime, calls,
             filler, lastFetchDone>>

trendVars == <<windowReports, trendPc, trendResponse>>

alertaVars == <<alertaTendencias, alertaAnalytics, alertaPc, alertaResponse>>

listVars == <<serverReports, authenticated, allReports, userReports,
              filteredReports, selectedFilter, searchQuery, isLoading,
              loadsPending, debouncePending, filtersApplied>>

popupVars == <<communityAlert, communityAlertLoading, communityAlertError,
               showingPopup, dismissTimer, alertTasks, popupOp>>

adminVars == <<adminUsers, runs>>

authVars == <<authClock, failedLoginAttempts, lastFailedLoginAttempt,
              isLockedOutFromLogin, lockoutTimer, loginCalls, lastLogin,
              invalidInARow>>

sessionVars == <<adminToken, localStorageToken, authState, checkPc, loginsInFlight, loginsMade, sessionActive>>

guardVars == <<authorization, reqUser, guardPc, canActivateResult, guardedResponse>>

registrationVars == <<users, registrations>>

vars == <<alertVars, trVars, catVars, trendVars, alertaVars, listVars,
      popupVars, adminVars, authVars, sessionVars, guardVars,
      registrationVars>>

\* what the actions of one component leave alone
notAlertVars ==
    <<trVars, catVars, trendVars, alertaVars, listVars, popupVars, adminVars,
      authVars, sessionVars, guardVars, registrationVars>>
notTrVars ==
    <<alertVars, catVars, trendVars, alertaVars, listVars, popupVars,
      adminVars, authVars, sessionVars, guardVars, registrationVars>>
notCatVars ==
    <<alertVars, trVars, trendVars, alertaVars, listVars, popupVars,
      adminVars, authVars, sessionVars, guardVars, registrationVars>>
notTrendVars ==
    <<alertVars, trVars, catVars, alertaVars, listVars, popupVars, adminVars,
      authVars, sessionVars, guardVars, registrationVars>>
notAlertaVars ==
    <<alertVars, trVars, catVars, trendVars, listVars, popupVars, adminVars,
      authVars, sessionVars, guardVars, registrationVars>>
notListVars ==
    <<alertVars, trVars, catVars, trendVars, alertaVars, popupVars,
      adminVars, authVars, sessionVars, guardVars, registrationVars>>
notAdminVars ==
    <<alertVars, trVars, catVars, trendVars, alertaVars, listVars, popupVars,
      authVars, sessionVars, guardVars, registrationVars>>
notPopupVars ==
    <<alertVars, trVars, catVars, trendVars, alertaVars, listVars, adminVars,
      authVars, sessionVars, guardVars, registrationVars>>

notAuthVars ==
    <<alertVars, trVars, catVars, trendVars, alertaVars, listVars, popupVars,
      adminVars, sessionVars, guardVars, registrationVars>>

notSessionVars ==
    <<alertVars, trVars, catVars, trendVars, alertaVars, listVars, popupVars,
      adminVars, authVars, guardVars, registrationVars>>

notGuardVars ==
    <<alertVars, trVars, catVars, trendVars, alertaVars, listVars, popupVars,
      adminVars, authVars, sessionVars, registrationVars>>

notRegistrationVars ==
    <<alertVars, trVars, catVars, trendVars, alertaVars, listVars, popupVars,
      adminVars, authVars, sessionVars, guardVars>>

None == <<>>
Some(v) == <<v>>

-----------------------------------------------------------------------------
(* Bounds *)

MaxReports == 10     \* total_reports ranges over 0..MaxReports
MaxTrends == 2       \* attack_trends holds at most MaxTrends entries
MaxAttackTypeId == 7 \* attack-type ids of filters range over 0..MaxAttackTypeId
MaxImpactId == 5     \* impact ids of filters range over 0..MaxImpactId
MaxStatusId == 5     \* status ids of filters range over 0..MaxStatusId
MaxCalls == 2        \* calls made of the catalog service
MaxWindow == 6       \* reports in the window of a trend request
MaxListed == 2       \* reports the backend holds for the mobile report list
MaxLoads == 1        \* loadReports calls in flight at once
MaxAlertLoads == 1   \* loadCommunityAlert tasks under way at once
MaxRuns == 2         \* runs of the create-admin script, side by side
MaxLoginCalls == 6   \* login calls made of the mobile AuthenticationService
MaxAuthClock == 20   \* minutes the login clock runs
MaxAdminLogins == 3  \* login calls made of the admin AuthContext
MaxRegistrations == 2 \* registration requests handled side by side

\* Percentages of an attack-trend entry, in tenths of a percent: a coarse grid
\* and the neighbours of the two thresholds the classifier tests.
PctGrid == {0, 100, 250, 399, 400, 401, 500, 599, 600, 601, 750, 1000}

RECURSIVE SeqsUpTo(_, _)
SeqsUpTo(S, n) ==
    IF n = 0 THEN {<<>>}
    ELSE LET shorter == SeqsUpTo(S, n - 1)
         IN  shorter \cup {Append(s, x) : s \in {q \in shorter : Len(q) = n - 1}, x \in S}

-----------------------------------------------------------------------------
(* Catalogs *)

Entry(i, n, c) == [id |-> i, name |-> n, created_at |-> c]

\* The attack_types, impacts and status tables as seeded: AUTO_INCREMENT ids
\* from 1, names NOT NULL UNIQUE.
ATTACK_TYPE_NAMES == <<"email", "SMS", "whatsapp", "llamada", "redes_sociales", "otro">>
IMPACT_NAMES == <<"ninguno", "robo_datos", "robo_dinero", "cuenta_comprometida">>
STATUS_NAMES == <<"nuevo", "revisado", "en_investigacion", "cerrado">>

Entries(names, c) == [i \in 1..Len(names) |-> Entry(i, names[i], c)]

\* CatalogUtils.createDefaultCatalogs(): the built-in catalog of six attack
\* types, four impacts and four statuses.
createDefaultCatalogs ==
    [attackTypes |-> Entries(ATTACK_TYPE_NAMES, "default"),
     impacts |-> Entries(IMPACT_NAMES, "default"),
     statuses |-> Entries(STATUS_NAMES, "default")]

\* What GET /reportes/catalogs serves from the seeded tables.
SeedCatalogs ==
    [attackTypes |-> Entries(ATTACK_TYPE_NAMES, "2025-01-01"),
     impacts |-> Entries(IMPACT_NAMES, "2025-01-01"),
     statuses |-> Entries(STATUS_NAMES, "2025-01-01")]

\* The tables after an attack type, an impact and a status were added.
ExtendedCatalogs ==
    [attackTypes |-> Append(SeedCatalogs.attackTypes, Entry(7, "codigo_qr", "2025-06-01")),
     impacts |-> Append(SeedCatalogs.impacts, Entry(5, "extorsion", "2025-06-01")),
     statuses |-> Append(SeedCatalogs.statuses, Entry(5, "archivado", "2025-06-01"))]

ServerCatalogs == {SeedCatalogs, ExtendedCatalogs}
ServerNames == {"seed", "extended"}

EmptyCatalogs == [attackTypes |-> <<>>, impacts |-> <<>>, statuses |-> <<>>]

Min(S) == CHOOSE x \in S : \A y \in S : x <= y

\* Array.prototype.find: the first entry id/name matches, or undefined
FindById(entries, i) ==
    LET hits == {k \in 1..Len(entries) : entries[k].id = i}
    IN  IF hits = {} THEN None ELSE Some(entries[Min(hits)])

FindByName(entries, n) ==
    LET hits == {k \in 1..Len(entries) : entries[k].name = n}
    IN  IF hits = {} THEN None ELSE Some(entries[Min(hits)])

\* JavaScript truthiness of an optional number / optional string
TruthyNum(o) == o # None /\ o[1] # 0
TruthyStr(o) == o # None /\ o[1] # ""

-----------------------------------------------------------------------------
(* Report/filter transformer *)

toLegacyFilters(cat, f) ==
    [query |-> f.query,
     isAnonymous |-> f.is_anonymous,
     dateFrom |-> f.date_from,
     dateTo |-> f.date_to,
     location |-> None,
     status |->
        IF TruthyNum(f.status)
        THEN LET status == FindById(cat.statuses, f.status[1])
             IN  IF status # None THEN Some(status[1].name) ELSE None
        ELSE None,
     attackType |->
        IF TruthyNum(f.attack_type)
        THEN LET attackType == FindById(cat.attackTypes, f.attack_type[1])
             IN  IF attackType # None THEN Some(attackType[1].name) ELSE None
        ELSE None,
     impactLevel |->
        IF TruthyNum(f.impact)
        THEN LET impact == FindById(cat.impacts, f.impact[1])
             IN  IF impact # None THEN Some(impact[1].name) ELSE None
        ELSE None]

\* fromLegacyFilters that raises nothing but sets a field even when no entry
\* matches (to the id 0) instead of leaving it unset
fromLegacyFiltersAlwaysSet(cat, l) ==
    LET idOf(entries, n) ==
            IF FindByName(entries, n[1]) # None
            THEN Some(FindByName(entries, n[1])[1].id) ELSE Some(0)
    IN  [query |-> l.query,
         is_anonymous |-> l.isAnonymous,
         date_from |-> l.dateFrom,
         date_to |-> l.dateTo,
         page |-> None,
         limit |-> None,
         status |-> IF TruthyStr(l.status) THEN idOf(cat.statuses, l.status) ELSE None,
         attack_type |-> IF TruthyStr(l.attackType) THEN idOf(cat.attackTypes, l.attackType) ELSE None,
         impact |-> IF TruthyStr(l.impactLevel) THEN idOf(cat.impacts, l.impactLevel) ELSE None]

fromLegacyFilters(cat, l) ==
    [query |-> l.query,
     is_anonymous |-> l.isAnonymous,
     date_from |-> l.dateFrom,
     date_to |-> l.dateTo,
     page |-> None,
     limit |-> None,
     status |->
        IF TruthyStr(l.status)
        THEN LET status == FindByName(cat.statuses, l.status[1])
             IN  IF status # None THEN Some(status[1].id) ELSE None
        ELSE None,
     attack_type |->
        IF TruthyStr(l.attackType)
        THEN LET attackType == FindByName(cat.attackTypes, l.attackType[1])
             IN  IF attackType # None THEN Some(attackType[1].id) ELSE None
        ELSE None,
     impact |->
        IF TruthyStr(l.impactLevel)
        THEN LET impact == FindByName(cat.impacts, l.impactLevel[1])
             IN  IF impact # None THEN Some(impact[1].id) ELSE None
        ELSE None]

\* x || '' for an optional string
OrEmpty(o) == IF TruthyStr(o) THEN o[1] ELSE ""

toLegacyReport(cat, r) ==
    [id |-> r.id,
     user_id |-> r.user_id,
     attack_type |-> r.attack_type_name,
     incident_date |-> r.incident_date,
     impact_level |-> r.impact_name,
     description |-> OrEmpty(r.description),
     attack_origin |-> OrEmpty(r.attack_origin),
     device_info |-> None,
     is_anonymous |-> r.is_anonymous,
     status |-> r.status_name,
     admin_notes |-> r.admin_note,
     evidence_urls |-> IF TruthyStr(r.evidence_url) THEN <<r.evidence_url[1]>> ELSE <<>>,
     created_at |-> r.created_at,
     updated_at |-> r.updated_at]

toLegacyReportSummary(cat, r) ==
    [id |-> r.id,
     attack_type |-> r.attack_type_name,
     incident_date |-> r.incident_date,
     impact_level |-> r.impact_name,
     status |-> r.status_name,
     is_anonymous |-> r.is_anonymous,
     user_id |-> r.user_id,
     attack_origin |-> OrEmpty(r.attack_origin),
     created_at |-> r.created_at]

Opt(S) == {None} \cup {Some(x) : x \in S}

NormalizedSearchFilters ==
    [query : Opt({"phishing"}),
     status : Opt(0..MaxStatusId),
     attack_type : Opt(0..MaxAttackTypeId),
     impact : Opt(0..MaxImpactId),
     is_anonymous : Opt({FALSE}),
     date_from : Opt({"2025-01-01"}),
     date_to : Opt({"2025-12-31"}),
     page : Opt({2}),
     limit : Opt({20})]

SearchFilters ==
    [query : Opt({"phishing"}),
     status : Opt({"", "nuevo", "cerrado", "archivado", "Nuevo"}),
     attackType : Opt({"", "email", "otro", "codigo_qr", "malware"}),
     impactLevel : Opt({"", "ninguno", "extorsion", "alto"}),
     isAnonymous : Opt({FALSE}),
     dateFrom : Opt({"2025-01-01"}),
     dateTo : Opt({"2025-12-31"}),
     location : Opt({"CDMX"})]

\* A report row as the backend joins it: the three names are those of the
\* server's tables (db) for the row's ids.
ReportsOf(db) ==
    {[id |-> 1,
      user_id |-> u,
      is_anonymous |-> (u = None),
      attack_type |-> db.attackTypes[a].id,
      attack_type_name |-> db.attackTypes[a].name,
      impact |-> db.impacts[i].id,
      impact_name |-> db.impacts[i].name,
      status |-> db.statuses[s].id,
      status_name |-> db.statuses[s].name,
      incident_date |-> "2025-03-01",
      description |-> d,
      attack_origin |-> o,
      evidence_url |-> e,
      admin_note |-> n,
      created_at |-> "2025-03-02",
      updated_at |-> "2025-03-03"] :
        u \in Opt({5}),
        a \in DOMAIN db.attackTypes, i \in DOMAIN db.impacts, s \in DOMAIN db.statuses,
        d \in Opt({"me pidieron mi NIP"}), o \in Opt({"+52 55 0000"}),
        e \in Opt({"", "https://e/1.png"}), n \in Opt({"revisado por admin"})}

ReportWithDetails(dbs) == UNION {ReportsOf(db) : db \in dbs}

\* The snapshots a transformer is constructed with: what getCatalogs returns.
TransformerCatalogs == {createDefaultCatalogs} \cup ServerCatalogs

TransformIdle ==
    /\ catalogData = EmptyCatalogs
    /\ trPc = "idle"
    /\ normalizedFilters = None /\ legacyFilters = None /\ normalized = None
    /\ report = None /\ legacyReport = None /\ legacyReportSummary = None

\* new ReportTransformer(catalogData), and the argument of the first call
InitTransform ==
    /\ catalogData \in TransformerCatalogs
    /\ normalized = None /\ legacyReport = None /\ legacyReportSummary = None
    /\ \/ /\ trPc = "toLegacyFilters"
          /\ normalizedFilters \in {Some(f) : f \in NormalizedSearchFilters}
          /\ legacyFilters = None /\ report = None
       \/ /\ trPc = "fromLegacyFilters"
          /\ legacyFilters \in {Some(l) : l \in SearchFilters}
          /\ normalizedFilters = None /\ report = None
       \/ /\ trPc = "toLegacyReport"
          /\ report \in {Some(r) : r \in ReportWithDetails(ServerCatalogs)}
          /\ normalizedFilters = None /\ legacyFilters = None

ToLegacyFilters ==
    /\ trPc = "toLegacyFilters"
    /\ legacyFilters' = Some(toLegacyFilters(catalogData, normalizedFilters[1]))
    /\ trPc' = "fromLegacyFilters"
    /\ UNCHANGED <<catalogData, normalizedFilters, normalized, report,
                   legacyReport, legacyReportSummary>>
    /\ UNCHANGED notTrVars

FromLegacyFilters ==
    /\ trPc = "fromLegacyFilters"
    /\ normalized' = Some(fromLegacyFilters(catalogData, legacyFilters[1]))
    /\ trPc' = "done"
    /\ UNCHANGED <<catalogData, normalizedFilters, legacyFilters, report,
                   legacyReport, legacyReportSummary>>
    /\ UNCHANGED notTrVars

ToLegacyReport ==
    /\ trPc = "toLegacyReport"
    /\ legacyReport' = Some(toLegacyReport(catalogData, report[1]))
    /\ trPc' = "toLegacyReportSummary"
    /\ UNCHANGED <<catalogData, normalizedFilters, legacyFilters, normalized,
                   report, legacyReportSummary>>
    /\ UNCHANGED notTrVars

ToLegacyReportSummary ==
    /\ trPc = "toLegacyReportSummary"
    /\ legacyReportSummary' = Some(toLegacyReportSummary(catalogData, report[1]))
    /\ trPc' = "done"
    /\ UNCHANGED <<catalogData, normalizedFilters, legacyFilters, normalized,
                   report, legacyReport>>
    /\ UNCHANGED notTrVars

NextTransform ==
    \/ ToLegacyFilters
    \/ FromLegacyFilters
    \/ ToLegacyReport
    \/ ToLegacyReportSummary

-----------------------------------------------------------------------------
(* Catalog cache of AdminAPIService *)

CACHE_TIMEOUT == 5 * 60 * 1000     \* milliseconds

\* Date.now() when the service is constructed; like any real clock it is
\* further from 0 than CACHE_TIMEOUT.
StartTime == 2 * CACHE_TIMEOUT

\* The instants at which something happens: StartTime and the instants 1 ms,
\* one timeout less 1 ms, exactly one timeout and two timeouts less 1 ms later
\* (any two of them are less than, exactly or more than CACHE_TIMEOUT apart).
Instants ==
    {StartTime + d : d \in {0, 1, CACHE_TIMEOUT - 1, CACHE_TIMEOUT, 2 * CACHE_TIMEOUT - 1}}

\* The cache state holds catalogs by name: catalogCache = Some("seed") is a
\* cache holding the content Catalog("seed"), catalogMaps = Some("seed") the
\* lookup maps createLookupMaps built from that content.
CatalogNames == {"default", "seed", "extended"}

Catalog(name) ==
    CASE name = "default" -> createDefaultCatalogs
      [] name = "seed" -> SeedCatalogs
      [] name = "extended" -> ExtendedCatalogs

NameOf(content) == CHOOSE name \in CatalogNames : Catalog(name) = content

\* new Map(entries.map(e => [e.id, e.name])): a later entry of an id wins
LookupMap(entries) ==
    [i \in {entries[k].id : k \in DOMAIN entries} |->
        entries[CHOOSE k \in DOMAIN entries :
                    /\ entries[k].id = i
                    /\ \A j \in DOMAIN entries : entries[j].id = i => j <= k].name]

\* CatalogUtils.createLookupMaps(catalogData)
createLookupMaps(cat) ==
    [attackTypeMap |-> LookupMap(cat.attackTypes),
     impactMap |-> LookupMap(cat.impacts),
     statusMap |-> LookupMap(cat.statuses)]

\* Bodies GET /reportes/catalogs can answer with while the tables hold db, and
\* the request failing (HTTP error or network error: request() throws).
NoBody == [attackTypes |-> None, impacts |-> None, statuses |-> None]
Body(db) == [attackTypes |-> Some(db.attackTypes), impacts |-> Some(db.impacts),
             statuses |-> Some(db.statuses)]

Wrapped(db) == [threw |-> FALSE, data |-> Some(Body(db)), top |-> NoBody]
Direct(db) == [threw |-> FALSE, data |-> None, top |-> Body(db)]
NoStatuses(db) ==
    [threw |-> FALSE, data |-> Some([Body(db) EXCEPT !.statuses = None]), top |-> NoBody]
EmptyObject == [threw |-> FALSE, data |-> None, top |-> NoBody]
RequestFailed == [threw |-> TRUE, data |-> None, top |-> NoBody]

Responses(db) == {Wrapped(db), Direct(db), NoStatuses(db), EmptyObject, RequestFailed}

\* the try block of getCatalogs from the response on: the validated catalog
\* data, or None where it throws
ValidCatalogData(response) ==
    IF response.threw THEN None
    ELSE LET chosen ==
                 IF response.data # None /\ response.data[1].attackTypes # None
                 THEN response.data
                 ELSE IF response.top.attackTypes # None
                 THEN Some(response.top)
                 ELSE None
         IN  IF chosen = None THEN None
             ELSE IF \/ chosen[1].attackTypes = None
                     \/ chosen[1].impacts = None
                     \/ chosen[1].statuses = None
             THEN None
             ELSE Some([attackTypes |-> chosen[1].attackTypes[1],
                        impacts |-> chosen[1].impacts[1],
                        statuses |-> chosen[1].statuses[1]])

\* the name under which the state holds createDefaultCatalogs()
DefaultName == NameOf(createDefaultCatalogs)

\* ValidCatalogData of every body the backend can answer with, by catalog name
AllResponses == UNION {Responses(Catalog(n)) : n \in ServerNames}

ValidCatalogName ==
    [response \in AllResponses |->
        LET data == ValidCatalogData(response)
        IN  IF data = None THEN None ELSE Some(NameOf(data[1]))]

LookupMapsOf == [n \in CatalogNames |-> createLookupMaps(Catalog(n))]

\* isCacheValid with the comparison turned around
isCacheValidInverted(now, last) == (now - last) > CACHE_TIMEOUT

isCacheValid(now, last) == (now - last) < CACHE_TIMEOUT

\* getCatalogs up to its first await: TRUE when it returns this.catalogCache
ServedFromCache(now, cache, last) == cache # None /\ isCacheValid(now, last)

\* getCatalogs whose catch block rethrows instead of falling back
getCatalogsAfterFetchRethrow(response, now, cache, maps, last) ==
    LET data == ValidCatalogName[response]
    IN  IF data # None
        THEN [cache |-> data, maps |-> data, last |-> now, ret |-> data, raised |-> FALSE]
        ELSE [cache |-> cache, maps |-> maps, last |-> last,
              ret |-> None, raised |-> TRUE]

\* getCatalogs that stamps the cache with time 0 instead of `now`
getCatalogsAfterFetchNoStamp(response, now, cache, maps, last) ==
    LET data == ValidCatalogName[response]
    IN  IF data # None
        THEN [cache |-> data, maps |-> data, last |-> 0, ret |-> data, raised |-> FALSE]
        ELSE [cache |-> cache, maps |-> maps, last |-> last,
              ret |-> Some(DefaultName), raised |-> FALSE]

\* getCatalogs from the response of its fetch on: the new cache fields and
\* the value returned
getCatalogsAfterFetch(response, now, cache, maps, last) ==
    LET data == ValidCatalogName[response]
    IN  IF data # None
        THEN [cache |-> data, maps |-> data, last |-> now, ret |-> data, raised |-> FALSE]
        ELSE [cache |-> cache, maps |-> maps, last |-> last,
              ret |-> Some(DefaultName), raised |-> FALSE]

NameOps == {"getAttackTypeName", "getImpactName", "getStatusName"}
NameIds == {1, 7}

MapOf(op, maps) ==
    CASE op = "getAttackTypeName" -> maps.attackTypeMap
      [] op = "getImpactName" -> maps.impactMap
      [] op = "getStatusName" -> maps.statusMap

\* maps.<map>.get(id) || 'Desconocido'; a TypeError when maps is null
ResolveName(op, id, maps) ==
    IF maps = None THEN [raised |-> TRUE, name |-> None]
    ELSE LET m == MapOf(op, LookupMapsOf[maps[1]])
         IN  [raised |-> FALSE,
              name |-> IF id \in DOMAIN m /\ m[id] # "" THEN Some(m[id])
                       ELSE Some("Desconocido")]

\* A call of the service as it is started. now is getCatalogs' `const now`;
\* gc says whether the call entered getCatalogs; fetches counts its requests
\* to /reportes/catalogs and fetched how the fetch ended ("none": no fetch or
\* not yet, "error": the try block threw, else the name of the catalog the
\* answer carried). The
\* ...AtStart fields and pre record what held when
\* the call started: the call whose fetch last filled the cache (0: none),
\* whether the last successful fetch was CACHE_TIMEOUT or more ago, the calls
\* then awaiting their fetch, and the three cache fields.
NewCall(op, id) ==
    [op |-> op, id |-> id, now |-> clock, pc |-> "fetching", gc |-> TRUE,
     fetches |-> 1, fetched |-> "none", raised |-> FALSE,
     retCatalog |-> None, retMaps |-> None, retName |-> None,
     fillerAtStart |-> filler,
     staleAtStart |-> (lastFetchDone >= 0 /\ clock - lastFetchDone >= CACHE_TIMEOUT),
     inflightAtStart |-> {k \in DOMAIN calls : calls[k].pc # "done"},
     pre |-> [cache |-> catalogCache, maps |-> catalogMaps, last |-> lastCacheTime]]

\* What the caller gets once the call's inner getCatalogs (if any) has
\* returned inner.ret or raised, the service's catalogMaps then being maps.
Complete(c, inner, maps) ==
    IF inner.raised
    THEN [c EXCEPT !.pc = "done", !.raised = TRUE]
    ELSE CASE c.op = "getCatalogs" ->
                [c EXCEPT !.pc = "done", !.retCatalog = inner.ret]
           [] c.op = "getCatalogMaps" ->
                [c EXCEPT !.pc = "done", !.retCatalog = inner.ret, !.retMaps = maps]
           [] c.op = "refreshCatalogs" ->
                [c EXCEPT !.pc = "done", !.retCatalog = inner.ret]
           [] OTHER ->
                LET n == ResolveName(c.op, c.id, maps)
                IN  [c EXCEPT !.pc = "done", !.retCatalog = inner.ret, !.retMaps = maps,
                              !.raised = n.raised, !.retName = n.name]

\* the call skipped getCatalogs altogether (catalogMaps was set)
NoInner == [ret |-> None, raised |-> FALSE]

CacheIdle ==
    /\ clock = 0
    /\ catalogCache = None /\ catalogMaps = None /\ lastCacheTime = 0
    /\ calls = <<>>
    /\ filler = 0 /\ lastFetchDone = -1

\* The service as new AdminAPIService() leaves it (cold), or as an earlier
\* getCatalogs, started and answered at StartTime, left it (warm).
InitCache ==
    /\ clock = StartTime
    /\ \/ /\ catalogCache = None /\ catalogMaps = None /\ lastCacheTime = 0
          /\ lastFetchDone = -1
       \/ /\ catalogCache \in {Some(n) : n \in ServerNames}
          /\ catalogMaps = catalogCache
          /\ lastCacheTime = StartTime
          /\ lastFetchDone = StartTime
    /\ calls = <<>>
    /\ filler = 0

\* getCatalogs(), up to its return from the cache or its fetch being sent
CallGetCatalogs ==
    /\ Len(calls) < MaxCalls
    /\ LET c == NewCall("getCatalogs", 0)
       IN  IF ServedFromCache(clock, catalogCache, lastCacheTime)
           THEN calls' = Append(calls, [c EXCEPT !.pc = "done", !.fetches = 0,
                                                !.retCatalog = catalogCache])
           ELSE calls' = Append(calls, c)
    /\ UNCHANGED <<clock, catalogCache, catalogMaps, lastCacheTime,
                   filler, lastFetchDone>>
    /\ UNCHANGED notCatVars

\* getCatalogMaps(), and getAttackTypeName / getImpactName / getStatusName(id)
\* which start with it
CallThroughMaps(op, id) ==
    /\ Len(calls) < MaxCalls
    /\ LET c == NewCall(op, id)
       IN  IF catalogMaps # None
           THEN calls' = Append(calls,
                    Complete([c EXCEPT !.gc = FALSE, !.fetches = 0], NoInner, catalogMaps))
           ELSE IF ServedFromCache(clock, catalogCache, lastCacheTime)
           THEN calls' = Append(calls,
                    Complete([c EXCEPT !.fetches = 0],
                             [ret |-> catalogCache, raised |-> FALSE], catalogMaps))
           ELSE calls' = Append(calls, c)
    /\ UNCHANGED <<clock, catalogCache, catalogMaps, lastCacheTime,
                   filler, lastFetchDone>>
    /\ UNCHANGED notCatVars

CallGetCatalogMaps == \E id \in {0} : CallThroughMaps("getCatalogMaps", id)

CallGetName == \E op \in NameOps, id \in NameIds : CallThroughMaps(op, id)

\* refreshCatalogs(), up to the fetch of its getCatalogs being sent
CallRefreshCatalogs ==
    /\ Len(calls) < MaxCalls
    /\ catalogCache' = None
    /\ catalogMaps' = None
    /\ lastCacheTime' = 0
    /\ filler' = 0
    /\ calls' = Append(calls, [NewCall("refreshCatalogs", 0) EXCEPT
                                  !.pre = [cache |-> None, maps |-> None, last |-> 0],
                                  !.fillerAtStart = 0])
    /\ UNCHANGED <<clock, lastFetchDone>>
    /\ UNCHANGED notCatVars

\* the fetch of call i is answered (a body the backend builds from its tables
\* as they are then, or a failure); the call resumes after `await this.request(...)` and runs
\* to its end
OnResponse(i) ==
    /\ calls[i].pc = "fetching"
    /\ \E response \in AllResponses :
        LET c == calls[i]
            r == getCatalogsAfterFetch(response, c.now, catalogCache, catalogMaps,
                                       lastCacheTime)
            filled == ~r.raised /\ ValidCatalogName[response] # None
        IN  /\ catalogCache' = r.cache
            /\ catalogMaps' = r.maps
            /\ lastCacheTime' = r.last
            /\ calls' = [calls EXCEPT ![i] = Complete([c EXCEPT !.fetched = IF ValidCatalogName[response] # None
                                                 THEN ValidCatalogName[response][1]
                                                 ELSE "error"],
                                              [ret |-> r.ret, raised |-> r.raised], r.maps)]
            /\ filler' = IF filled THEN i ELSE filler
            /\ lastFetchDone' = IF filled THEN clock ELSE lastFetchDone
    /\ UNCHANGED clock
    /\ UNCHANGED notCatVars

Resume == \E i \in DOMAIN calls : OnResponse(i)

\* some call can still start or resume
Active == Len(calls) < MaxCalls \/ \E i \in DOMAIN calls : calls[i].pc # "done"

\* time passes
Tick ==
    /\ Active
    /\ \E t \in Instants : t > clock /\ clock' = t
    /\ UNCHANGED <<catalogCache, catalogMaps, lastCacheTime, calls, filler,
                   lastFetchDone>>
    /\ UNCHANGED notCatVars

\* the cache driven through getCatalogs and refreshCatalogs alone
NextCache ==
    \/ CallGetCatalogs
    \/ CallRefreshCatalogs
    \/ Resume
    \/ Tick

\* the cache driven through every catalog method
NextCatalog ==
    \/ CallGetCatalogs
    \/ CallGetCatalogMaps
    \/ CallGetName
    \/ CallRefreshCatalogs
    \/ Resume
    \/ Tick

-----------------------------------------------------------------------------
(* Alert-level classifier *)

\* (highest_impact_count / total_reports) * 100 in IEEE-754 double arithmetic:
\* a finite value num/den, +Infinity (h > 0, total = 0) or NaN (0 / 0).
highImpactPercentage(overview) ==
    IF overview.total_reports = 0
    THEN IF overview.highest_impact_count = 0
         THEN [kind |-> "NaN", num |-> 0, den |-> 1]
         ELSE [kind |-> "Infinity", num |-> 1, den |-> 1]
    ELSE [kind |-> "finite",
          num |-> overview.highest_impact_count * 100,
          den |-> overview.total_reports]

\* x > k for a double x and a whole number k: every comparison with NaN is
\* false, +Infinity exceeds every k, and num/den > k iff num > k * den.
GreaterThan(x, k) ==
    CASE x.kind = "NaN" -> FALSE
      [] x.kind = "Infinity" -> TRUE
      [] OTHER -> x.num > k * x.den

\* attack_trends?.[0]?.percentage || 0, in tenths of a percent
topAttackPercentage(t) ==
    IF Len(t.attack_trends) = 0 THEN 0 ELSE t.attack_trends[1]

\* x >= k, the comparison a non-strict threshold test would make
GreaterOrEqual(x, k) ==
    CASE x.kind = "NaN" -> FALSE
      [] x.kind = "Infinity" -> TRUE
      [] OTHER -> x.num >= k * x.den

\* determineAlertLevel with inclusive thresholds (>= in place of >)
determineAlertLevelInclusive(t, a) ==
    LET hi == highImpactPercentage(a)
        top == topAttackPercentage(t)
    IN  IF GreaterOrEqual(hi, 40) \/ top >= 600 THEN "rojo"
        ELSE IF GreaterOrEqual(hi, 20) \/ top >= 400 THEN "amarillo"
        ELSE "verde"

determineAlertLevel(t, a) ==
    LET hi == highImpactPercentage(a)
        top == topAttackPercentage(t)
    IN  IF GreaterThan(hi, 40) \/ top > 600 THEN "rojo"
        ELSE IF GreaterThan(hi, 20) \/ top > 400 THEN "amarillo"
        ELSE "verde"

Overviews ==
    {[total_reports |-> t, highest_impact_count |-> h] :
        t \in 0..MaxReports, h \in 0..MaxReports}

TrendSummaries == {[attack_trends |-> s] : s \in SeqsUpTo(PctGrid, MaxTrends)}

InitAlert ==
    /\ analytics \in {o \in Overviews : o.highest_impact_count <= o.total_reports}
    /\ tendencias \in TrendSummaries
    /\ alertPc = "request"
    /\ nivel = "none"

\* getAlertaComunitaria's call of determineAlertLevel(tendencias, analytics)
DetermineAlertLevel ==
    /\ alertPc = "request"
    /\ nivel' = determineAlertLevel(tendencias, analytics)
    /\ alertPc' = "done"
    /\ UNCHANGED <<analytics, tendencias>>
    /\ UNCHANGED notAlertVars

AlertIdle ==
    /\ analytics = [total_reports |-> 0, highest_impact_count |-> 0]
    /\ tendencias = [attack_trends |-> <<>>]
    /\ alertPc = "idle"
    /\ nivel = "none"

NextAlert == DetermineAlertLevel

-----------------------------------------------------------------------------
(* Trend aggregator: ComunidadService.getTendencias behind                  *)
(* GET /comunidad/tendencias                                                *)

Periods == {"7days", "30days", "90days"}

\* the catalog rows the reports of the store refer to
TrendCatalog == SeedCatalogs

RECURSIVE SumTo(_, _)
SumTo(v, i) == IF i = 0 THEN 0 ELSE v[i] + SumTo(v, i - 1)

\* the ways to split n reports over the catalog rows 1..k: v[i] reports for row i
RECURSIVE Splits(_, _)
Splits(n, k) ==
    IF k = 0 THEN IF n = 0 THEN {<<>>} ELSE {}
    ELSE UNION {{Append(v, x) : v \in Splits(n - x, k - 1)} : x \in 0..n}

\* the k-th of the ids 1..n listed in ascending order, id i listed v[i] times
IdAt(v, n, k) == Min({i \in 1..n : SumTo(v, i) >= k})

\* Report rows of a window: n reports of which av[a] have attack type a and
\* iv[i] have impact i (foreign keys into the catalog tables).
WindowOf(n, av, iv) ==
    [k \in 1..n |->
        [id |-> k,
         attackType |-> IdAt(av, Len(TrendCatalog.attackTypes), k),
         impact |-> IdAt(iv, Len(TrendCatalog.impacts), k)]]

\* the splits of 0..MaxWindow reports over the attack types
AttackSplits == [n \in 0..MaxWindow |-> Splits(n, Len(TrendCatalog.attackTypes))]

\* the splits of 0..MaxWindow reports over the impacts, one for each multiset of
\* counts: the larger counts on the lower ids (no impact row is singled out by
\* the summary, unlike the attack types with their main threat)
ImpactSplits ==
    [n \in 0..MaxWindow |->
        {v \in Splits(n, Len(TrendCatalog.impacts)) :
            \A i \in 1..(Len(v) - 1) : v[i] >= v[i + 1]}]

\* count of the reports whose catalog reference `field` is id
CountOf(reports, field, id) ==
    Cardinality({k \in 1..Len(reports) : reports[k][field] = id})

\* the counts of the first n catalog rows, in catalog order
RECURSIVE CountsOf(_, _, _, _)
CountsOf(reports, entries, field, n) ==
    IF n = 0 THEN <<>>
    ELSE Append(CountsOf(reports, entries, field, n - 1),
                CountOf(reports, field, entries[n].id))

\* percentages truncated to one decimal instead of rounded
PercentageOfTruncated(count, total) ==
    IF total = 0 THEN 0 ELSE (1000 * count) \div total

\* the share of an empty window computed as 0 / 0 (NaN, written -1)
PercentageOfUnguarded(count, total) ==
    IF total = 0 THEN 0 - 1 ELSE (2000 * count + total) \div (2 * total)

\* count / total as a percentage rounded to one decimal (half up), in tenths
\* of a percent; 0 when the window is empty
PercentageOf(count, total) ==
    IF total = 0 THEN 0 ELSE (2000 * count + total) \div (2 * total)

\* the rows 1..n ordered by count, highest first, equal counts by ascending id
RECURSIVE OrderOf(_, _)
OrderOf(cnt, n) ==
    IF n = 0 THEN <<>>
    ELSE LET rest == OrderOf(cnt, n - 1)
             ahead == Cardinality({r \in 1..Len(rest) : cnt[rest[r]] >= cnt[n]})
         IN  SubSeq(rest, 1, ahead) \o <<n>> \o SubSeq(rest, ahead + 1, Len(rest))

\* one entry per catalog row, highest count first, equal counts by ascending id
Distribution(reports, entries, field) ==
    LET cnt == CountsOf(reports, entries, field, Len(entries))
        order == OrderOf(cnt, Len(entries))
        total == Len(reports)
    IN  [r \in 1..Len(entries) |->
            [id |-> entries[order[r]].id,
             name |-> entries[order[r]].name,
             count |-> cnt[order[r]],
             percentage |-> PercentageOf(cnt[order[r]], total)]]

\* the scan for the main threat that lets a later row with the same count win
RECURSIVE TopRowLastWins(_, _, _, _)
TopRowLastWins(reports, entries, k, best) ==
    IF k > Len(entries) THEN best
    ELSE TopRowLastWins(reports, entries, k + 1,
             IF CountOf(reports, "attackType", entries[k].id)
                    >= CountOf(reports, "attackType", entries[best].id)
             THEN k ELSE best)

\* the scan for the main threat: the catalog rows in insertion order, a row
\* replaces the best so far only with a strictly higher count
RECURSIVE TopRow(_, _, _, _)
TopRow(reports, entries, k, best) ==
    IF k > Len(entries) THEN best
    ELSE TopRow(reports, entries, k + 1,
             IF CountOf(reports, "attackType", entries[k].id)
                    > CountOf(reports, "attackType", entries[best].id)
             THEN k ELSE best)

\* getTrends(period) -> TrendSummary over the reports of the window
getTrends(period, reports) ==
    [period |-> period,
     attackTypeDistribution |-> Distribution(reports, TrendCatalog.attackTypes, "attackType"),
     impactDistribution |-> Distribution(reports, TrendCatalog.impacts, "impact"),
     mainThreat |-> TrendCatalog.attackTypes[
                        TopRow(reports, TrendCatalog.attackTypes, 1, 1)].name]

TrendIdle ==
    /\ windowReports = <<>>
    /\ trendPc = "idle"
    /\ trendResponse = None

InitTrend ==
    /\ \E n \in 0..MaxWindow :
          \E av \in AttackSplits[n], iv \in ImpactSplits[n] :
              windowReports = WindowOf(n, av, iv)
    /\ trendPc = "request"
    /\ trendResponse = None

\* ComunidadController.getTendencias: the service's summary wrapped in a
\* success response, or the failure response of the catch block when the
\* service cannot read the store
GetTendencias ==
    /\ trendPc = "request"
    /\ \E period \in Periods, storeFails \in BOOLEAN :
          trendResponse' =
              IF storeFails
              THEN Some([success |-> FALSE, raised |-> FALSE, data |-> None,
                         viewing_period |-> None])
              ELSE Some([success |-> TRUE, raised |-> FALSE,
                         data |-> Some(getTrends(period, windowReports)),
                         viewing_period |-> Some(period)])
    /\ trendPc' = "done"
    /\ UNCHANGED windowReports
    /\ UNCHANGED notTrendVars

NextTrend == GetTendencias

-----------------------------------------------------------------------------
(* Community alert endpoint: ComunidadController.getAlertaComunitaria       *)

\* A message is the sequence of the parts of its template literal: the fixed
\* texts and the substituted values. No attack-type name occurs inside one of
\* the fixed texts.
RojoPrefix == "Se ha detectado un incremento significativo en ataques cibernéticos. "
RojoSuffix == " es la amenaza predominante."
AmarilloPrefix == "Actividad cibernética elevada detectada. "
AmarilloSuffix == " requiere atención."
VerdeText == "Actividad cibernética dentro de parámetros normales. Continúa con buenas prácticas de seguridad."

\* generateAlertMessage whose switch has no case for 'amarillo'
generateAlertMessageTwoCases(level, t) ==
    CASE level = "rojo" -> <<RojoPrefix, t.summary.main_threat, RojoSuffix>>
      [] OTHER -> <<VerdeText>>

generateAlertMessage(level, t) ==
    CASE level = "rojo" -> <<RojoPrefix, t.summary.main_threat, RojoSuffix>>
      [] level = "amarillo" -> <<AmarilloPrefix, t.summary.main_threat, AmarilloSuffix>>
      [] OTHER -> <<VerdeText>>

\* percentages of the attack trends handed to the endpoint, tenths of a percent
AlertaGrid == {0, 400, 401, 601}

\* main-threat labels of a trend summary
MainThreats == {ATTACK_TYPE_NAMES[1], ATTACK_TYPE_NAMES[2]}

\* what getTendencias('7days') resolves to
AlertaTendencias ==
    {[attack_trends |-> a, summary |-> [main_threat |-> m]] :
        a \in SeqsUpTo(AlertaGrid, MaxTrends), m \in MainThreats}

\* what getAnalytics() resolves to
AlertaAnalytics ==
    {[community_overview |-> o] :
        o \in {v \in Overviews : v.highest_impact_count <= v.total_reports}}

\* new Date().toISOString() at the time of the request
Timestamps == {"2025-10-01T10:00:00.000Z", "2025-10-01T10:05:00.000Z"}

AlertaIdle ==
    /\ alertaTendencias = None
    /\ alertaAnalytics = None
    /\ alertaPc = "idle"
    /\ alertaResponse = None

InitAlerta ==
    /\ alertaTendencias \in {None} \cup {Some(t) : t \in AlertaTendencias}
    /\ alertaAnalytics \in {None} \cup {Some(a) : a \in AlertaAnalytics}
    /\ alertaPc = "request"
    /\ alertaResponse = None

\* ComunidadController.getAlertaComunitaria: both service calls, the level,
\* the message and the response; the catch block answers a call that threw
GetAlertaComunitaria ==
    /\ alertaPc = "request"
    /\ \E now \in Timestamps :
          alertaResponse' =
              IF alertaTendencias = None \/ alertaAnalytics = None
              THEN Some([success |-> FALSE, raised |-> FALSE, alerta |-> None,
                         message |-> Some("Error al obtener alerta comunitaria")])
              ELSE LET alertLevel == determineAlertLevel(alertaTendencias[1],
                                         alertaAnalytics[1].community_overview)
                   IN  Some([success |-> TRUE, raised |-> FALSE,
                             alerta |-> Some([nivel |-> alertLevel,
                                              mensaje |-> generateAlertMessage(alertLevel, alertaTendencias[1]),
                                              ultima_actualizacion |-> now]),
                             message |-> None])
    /\ alertaPc' = "done"
    /\ UNCHANGED <<alertaTendencias, alertaAnalytics>>
    /\ UNCHANGED notAlertaVars

NextAlerta == GetAlertaComunitaria

-----------------------------------------------------------------------------
(* Mobile report list: ReportsListViewModel, reports, filter and search     *)

\* Texts (attackOrigin, description, display names, the search query) are
\* sequences of characters.
Lower(ch) ==
    CASE ch = "P" -> "p" [] ch = "H" -> "h" [] ch = "S" -> "s" [] ch = "M" -> "m"
      [] ch = "E" -> "e" [] ch = "W" -> "w" [] ch = "A" -> "a" [] OTHER -> ch

\* String.lowercased()
lowercased(text) == [k \in 1..Len(text) |-> Lower(text[k])]

\* String.contains(_:) : the (non-empty) other text occurs in the text
contains(text, other) ==
    \E k \in 1..(Len(text) - Len(other) + 1) :
        SubSeq(text, k, k + Len(other) - 1) = other

\* trimmingCharacters(in: .whitespacesAndNewlines).isEmpty
TrimmedIsEmpty(text) == \A k \in 1..Len(text) : text[k] \in {" ", "\n"}

\* ReportFilter raw values and the status filters among them
ReportFilters == {"todos", "mis_reportes", "nuevo", "revisado", "en_investigacion", "cerrado"}
StatusFilters == {"nuevo", "revisado", "en_investigacion", "cerrado"}

\* Report.getAttackTypeDisplayName(): the display names of the attack types
AttackTypeDisplayName(name) ==
    CASE name = "email" -> <<"E", "m", "a", "i", "l">>
      [] name = "SMS" -> <<"S", "M", "S">>
      [] name = "whatsapp" -> <<"W", "h", "a", "t", "s", "A", "p", "p">>
      [] OTHER -> <<"O", "t", "r", "o">>

\* The reports the backend can hold: own tells a report of the signed-in
\* user, createdAt orders them.
ReportPool ==
    <<[id |-> 1, own |-> TRUE, attackType |-> "email",
       attackOrigin |-> Some(<<"p", "h", "@">>),
       description |-> Some(<<"u", "n", " ", "P", "H">>),
       status |-> "nuevo", createdAt |-> 30],
      [id |-> 2, own |-> FALSE, attackType |-> "SMS",
       attackOrigin |-> Some(<<"+", "1">>),
       description |-> None,
       status |-> "revisado", createdAt |-> 10],
      [id |-> 3, own |-> TRUE, attackType |-> "whatsapp",
       attackOrigin |-> None,
       description |-> Some(<<"p", "h">>),
       status |-> "nuevo", createdAt |-> 20],
      [id |-> 4, own |-> FALSE, attackType |-> "SMS",
       attackOrigin |-> None,
       description |-> None,
       status |-> "cerrado", createdAt |-> 40]>>

\* the reports of the pool with an id in ids, in pool order
RECURSIVE PoolRows(_, _)
PoolRows(ids, n) ==
    IF n = 0 THEN <<>>
    ELSE IF n \in ids THEN Append(PoolRows(ids, n - 1), ReportPool[n])
         ELSE PoolRows(ids, n - 1)

ServerReportLists ==
    {PoolRows(ids, Len(ReportPool)) :
        ids \in {i \in SUBSET (1..Len(ReportPool)) : Cardinality(i) <= MaxListed}}

\* what the user can type into the search field
Queries ==
    {<<>>, <<" ">>, <<"p", "h">>, <<"P", "H">>, <<"s", "m", "s">>, <<"z", "9">>}

\* sorted { $0.createdAt > $1.createdAt }: newest first
RECURSIVE SortedNewestFirst(_)
SortedNewestFirst(reports) ==
    IF reports = <<>> THEN <<>>
    ELSE LET rest == SortedNewestFirst(SubSeq(reports, 1, Len(reports) - 1))
             last == reports[Len(reports)]
             ahead == Cardinality({k \in 1..Len(rest) : rest[k].createdAt >= last.createdAt})
         IN  SubSeq(rest, 1, ahead) \o <<last>> \o SubSeq(rest, ahead + 1, Len(rest))

\* the search test of applyFilters that compares the fields as they are
\* written (only the query is lowercased)
SearchMatchesCaseSensitive(r, query) ==
    \/ contains(AttackTypeDisplayName(r.attackType), query)
    \/ (r.attackOrigin # None /\ contains(r.attackOrigin[1], query))
    \/ (r.description # None /\ contains(r.description[1], query))

\* the closure of the search filter; query is searchQuery.lowercased()
SearchMatches(r, query) ==
    \/ contains(lowercased(AttackTypeDisplayName(r.attackType)), query)
    \/ (r.attackOrigin # None /\ contains(lowercased(r.attackOrigin[1]), query))
    \/ (r.description # None /\ contains(lowercased(r.description[1]), query))

\* the base dataset of applyFilters when every status filter shows all reports
BaseDatasetAllForStatus(all, user, filter) ==
    IF filter = "mis_reportes" THEN user ELSE all

\* the base dataset of applyFilters (switch selectedFilter)
BaseDataset(all, user, filter) ==
    CASE filter = "todos" -> all
      [] filter = "mis_reportes" -> user
      [] OTHER -> LET HasStatus(r) == r.status = filter IN SelectSeq(all, HasStatus)

\* applyFilters(): the value it assigns to filteredReports
applyFilters(all, user, filter, text) ==
    LET base == BaseDataset(all, user, filter)
        query == lowercased(text)
        Hit(r) == SearchMatches(r, query)
        found == IF ~TrimmedIsEmpty(text) THEN SelectSeq(base, Hit) ELSE base
    IN  SortedNewestFirst(found)

\* a view model right after init(): loadReports is under way, the
\* $selectedFilter sink has run applyFilters once on subscribing, the initial
\* $searchQuery value waits in the debounce
ListConstructed ==
    /\ allReports = <<>>
    /\ userReports = <<>>
    /\ filteredReports = <<>>
    /\ selectedFilter = "todos"
    /\ searchQuery = <<>>
    /\ isLoading = TRUE
    /\ loadsPending = 1
    /\ debouncePending = TRUE
    /\ filtersApplied = TRUE

ListIdle ==
    /\ serverReports = <<>>
    /\ authenticated = FALSE
    /\ ListConstructed

InitList ==
    /\ serverReports \in ServerReportLists
    /\ authenticated \in BOOLEAN
    /\ ListConstructed

\* loadReports() (pull to refresh, refreshData)
LoadReports ==
    /\ loadsPending < MaxLoads
    /\ isLoading' = TRUE
    /\ loadsPending' = loadsPending + 1
    /\ UNCHANGED <<serverReports, authenticated, allReports, userReports,
                   filteredReports, selectedFilter, searchQuery,
                   debouncePending, filtersApplied>>
    /\ UNCHANGED notListVars

\* the sink of loadReports: both publishers have delivered (a failed request
\* delivers the empty list; user reports are asked for only with a valid
\* token), then the completion
ReceiveReports ==
    /\ loadsPending > 0
    /\ \E allFails \in BOOLEAN, userFails \in BOOLEAN :
          LET HasOwner(r) == r.own
              all == IF allFails THEN <<>> ELSE serverReports
              user == IF userFails \/ ~authenticated THEN <<>>
                      ELSE SelectSeq(serverReports, HasOwner)
          IN  /\ allReports' = all
              /\ userReports' = user
              /\ filteredReports' = applyFilters(all, user, selectedFilter, searchQuery)
    /\ filtersApplied' = TRUE
    /\ isLoading' = FALSE
    /\ loadsPending' = loadsPending - 1
    /\ UNCHANGED <<serverReports, authenticated, selectedFilter, searchQuery,
                   debouncePending>>
    /\ UNCHANGED notListVars

\* selectedFilter = f (changeFilter(to:), the filter picker): @Published
\* sends the new value to the $selectedFilter sink in willSet, so the sink's
\* applyFilters() still reads the old selectedFilter
SetSelectedFilter ==
    /\ \E f \in ReportFilters : selectedFilter' = f
    /\ filteredReports' = applyFilters(allReports, userReports, selectedFilter, searchQuery)
    /\ filtersApplied' = (selectedFilter' = selectedFilter)
    /\ UNCHANGED <<serverReports, authenticated, allReports, userReports,
                   searchQuery, isLoading, loadsPending, debouncePending>>
    /\ UNCHANGED notListVars

\* searchQuery = q (the search field): the value enters the debounce
SetSearchQuery ==
    /\ \E q \in Queries : searchQuery' = q
    /\ debouncePending' = TRUE
    /\ filtersApplied' = FALSE
    /\ UNCHANGED <<serverReports, authenticated, allReports, userReports,
                   filteredReports, selectedFilter, isLoading, loadsPending>>
    /\ UNCHANGED notListVars

\* 300 ms after the last change of searchQuery its sink calls applyFilters()
DebounceFires ==
    /\ debouncePending
    /\ debouncePending' = FALSE
    /\ filteredReports' = applyFilters(allReports, userReports, selectedFilter, searchQuery)
    /\ filtersApplied' = TRUE
    /\ UNCHANGED <<serverReports, authenticated, allReports, userReports,
                   selectedFilter, searchQuery, isLoading, loadsPending>>
    /\ UNCHANGED notListVars

\* applyFilters() called directly
ApplyFilters ==
    /\ filteredReports' = applyFilters(allReports, userReports, selectedFilter, searchQuery)
    /\ filtersApplied' = TRUE
    /\ UNCHANGED <<serverReports, authenticated, allReports, userReports,
                   selectedFilter, searchQuery, isLoading, loadsPending,
                   debouncePending>>
    /\ UNCHANGED notListVars

NextList ==
    \/ LoadReports
    \/ ReceiveReports
    \/ SetSelectedFilter
    \/ SetSearchQuery
    \/ DebounceFires
    \/ ApplyFilters

-----------------------------------------------------------------------------
(* Mobile report list: ReportsListViewModel, community alert and its popup  *)

\* the levels a community alert response can carry
Niveles == {"rojo", "ROJO", "Rojo", "amarillo", "AMARILLO", "verde"}

\* String.lowercased() of a level
lowercasedNivel(level) ==
    CASE level \in {"ROJO", "Rojo"} -> "rojo"
      [] level = "AMARILLO" -> "amarillo"
      [] OTHER -> level

\* what communityService.getCommunityAlert() ends in: a response with
\* success and an alert, a response with success = false, or an error thrown
AlertOutcomes ==
    {[kind |-> "success", nivel |-> n] : n \in Niveles}
        \cup {[kind |-> "failure", nivel |-> ""], [kind |-> "error", nivel |-> ""]}

\* an alert load that shows the popup for every level but verde
ShowsPopupUnlessVerde(level) == lowercasedNivel(level) # "verde"

\* loadCommunityAlert: `response.alerta.nivel.lowercased() == "rojo"`
ShowsPopup(level) == lowercasedNivel(level) = "rojo"

\* a view model right after init(): the task of loadCommunityAlert is created
\* and has not run yet
PopupConstructed ==
    /\ communityAlert = None
    /\ communityAlertLoading = FALSE
    /\ communityAlertError = None
    /\ showingPopup = FALSE
    /\ dismissTimer = FALSE
    /\ alertTasks = <<"scheduled">>
    /\ popupOp = "init"

PopupIdle == PopupConstructed

InitPopup == PopupConstructed

\* loadCommunityAlert() (refreshData): a new task
LoadCommunityAlert ==
    /\ Len(alertTasks) < MaxAlertLoads
    /\ alertTasks' = Append(alertTasks, "scheduled")
    /\ popupOp' = "loadCommunityAlert"
    /\ UNCHANGED <<communityAlert, communityAlertLoading, communityAlertError,
                   showingPopup, dismissTimer>>
    /\ UNCHANGED notPopupVars

\* the first MainActor.run of a task, then the request is sent
AlertTaskBegins ==
    /\ \E i \in DOMAIN alertTasks :
          /\ alertTasks[i] = "scheduled"
          /\ alertTasks' = [alertTasks EXCEPT ![i] = "requesting"]
    /\ communityAlertLoading' = TRUE
    /\ communityAlertError' = None
    /\ popupOp' = "alertLoading"
    /\ UNCHANGED <<communityAlert, showingPopup, dismissTimer>>
    /\ UNCHANGED notPopupVars

\* the request of a task ends and its second MainActor.run (or the one of
\* its catch block) runs
AlertTaskEnds ==
    \E i \in DOMAIN alertTasks, outcome \in AlertOutcomes :
        /\ alertTasks[i] = "requesting"
        /\ alertTasks' = SubSeq(alertTasks, 1, i - 1)
                              \o SubSeq(alertTasks, i + 1, Len(alertTasks))
        /\ communityAlertLoading' = FALSE
        /\ IF outcome.kind = "success"
           THEN /\ communityAlert' = Some([nivel |-> outcome.nivel])
                /\ communityAlertError' = None
                /\ popupOp' = "alertLoaded"
                /\ IF ShowsPopup(outcome.nivel)
                   THEN showingPopup' = TRUE /\ dismissTimer' = TRUE
                   ELSE UNCHANGED <<showingPopup, dismissTimer>>
           ELSE /\ communityAlert' = None
                /\ communityAlertError' =
                       IF outcome.kind = "failure"
                       THEN Some("Error del servidor al cargar alerta comunitaria")
                       ELSE Some("No se pudo cargar la alerta comunitaria")
                /\ popupOp' = "alertFailed"
                /\ UNCHANGED <<showingPopup, dismissTimer>>
        /\ UNCHANGED notPopupVars

TogglePopup ==
    /\ dismissTimer' = FALSE
    /\ showingPopup' = ~showingPopup
    /\ popupOp' = "togglePopup"
    /\ UNCHANGED <<communityAlert, communityAlertLoading, communityAlertError, alertTasks>>
    /\ UNCHANGED notPopupVars

\* showPopup(): showPopupWithAutoHide()
ShowPopup ==
    /\ showingPopup' = TRUE
    /\ dismissTimer' = TRUE
    /\ popupOp' = "showPopup"
    /\ UNCHANGED <<communityAlert, communityAlertLoading, communityAlertError, alertTasks>>
    /\ UNCHANGED notPopupVars

HidePopup ==
    /\ dismissTimer' = FALSE
    /\ showingPopup' = FALSE
    /\ popupOp' = "hidePopup"
    /\ UNCHANGED <<communityAlert, communityAlertLoading, communityAlertError, alertTasks>>
    /\ UNCHANGED notPopupVars

\* the auto-hide timer fires 5 s after showPopupWithAutoHide
DismissTimerFires ==
    /\ dismissTimer
    /\ dismissTimer' = FALSE
    /\ showingPopup' = FALSE
    /\ popupOp' = "dismissTimer"
    /\ UNCHANGED <<communityAlert, communityAlertLoading, communityAlertError, alertTasks>>
    /\ UNCHANGED notPopupVars

NextPopup ==
    \/ LoadCommunityAlert
    \/ AlertTaskBegins
    \/ AlertTaskEnds
    \/ TogglePopup
    \/ ShowPopup
    \/ HidePopup
    \/ DismissTimerFires

-----------------------------------------------------------------------------
(* create-admin script: createAdmin() against the admin_users table         *)

\* Emails and passwords are sequences of characters.

\* /^[^\s@]+@[^\s@]+\.[^\s@]+$/ : no white space, one @ that is not the first
\* character, and after it a dot with a character on each side
isValidEmail(email) ==
    LET n == Len(email)
        ats == {k \in 1..n : email[k] = "@"}
    IN  /\ \A k \in 1..n : email[k] \notin {" ", "\t", "\n"}
        /\ Cardinality(ats) = 1
        /\ \E a \in ats : a > 1 /\ \E d \in (a + 2)..(n - 1) : email[d] = "."

\* a password check that lets seven characters pass
PasswordAcceptedFromSeven(password) == Len(password) >= 7

\* the condition that ends the password loop: !(!password || password.length < 8)
PasswordAccepted(password) == password # <<>> /\ ~(Len(password) < 8)

\* what the operator types at the email prompt
EmailsTyped ==
    {<<>>, <<"a", "@", "b">>, <<"a", "@", "b", ".", "c">>, <<"z", "@", "b", ".", "c">>}

\* what the operator types at the password prompts
PasswordsTyped ==
    {<<"1", "2", "3", "4", "5", "6", "7">>,
     <<"1", "2", "3", "4", "5", "6", "7", "8">>,
     <<"a", "b", "c", "d", "e", "f", "g", "h">>}

\* a row of admin_users: id AUTO_INCREMENT, email UNIQUE NOT NULL
AdminRow(i, email, hash, salt) ==
    [id |-> i, email |-> email, pass_hash |-> hash, salt |-> salt]

\* the admin that exists before the script is run
SeedAdmin == AdminRow(1, <<"a", "@", "b", ".", "c">>, "seed-hash", "seed-salt")

\* generateSalt(): 32 random bytes, here one value for each run
generateSalt(r) == <<"salt", r>>

\* hashPassword(password, salt): the hash of password + salt
hashPassword(password, salt) == <<"hash", password \o salt>>

EmailExists(rows, email) == \E k \in DOMAIN rows : rows[k].email = email

NewRun ==
    [pc |-> "askEmail", email |-> <<>>, password |-> <<>>, passwordConfirm |-> <<>>,
     outcome |-> "none", exitCode |-> 0 - 1, insertId |-> 0, existedAtInsert |-> FALSE]

AdminIdle ==
    /\ adminUsers = <<>>
    /\ runs = <<>>

InitAdmin ==
    /\ adminUsers \in {<<>>, <<SeedAdmin>>}
    /\ runs = [r \in 1..MaxRuns |-> NewRun]

\* the email loop: one prompt; an invalid email is asked for again
AskEmail(r) ==
    /\ runs[r].pc = "askEmail"
    /\ \E typed \in EmailsTyped :
          runs' = IF isValidEmail(typed)
                  THEN [runs EXCEPT ![r].email = typed, ![r].pc = "askPassword"]
                  ELSE [runs EXCEPT ![r].email = <<>>]
    /\ UNCHANGED adminUsers
    /\ UNCHANGED notAdminVars

\* the password loop: one prompt; a short password is asked for again
AskPassword(r) ==
    /\ runs[r].pc = "askPassword"
    /\ \E typed \in PasswordsTyped :
          runs' = IF PasswordAccepted(typed)
                  THEN [runs EXCEPT ![r].password = typed, ![r].pc = "askConfirm"]
                  ELSE [runs EXCEPT ![r].password = <<>>]
    /\ UNCHANGED adminUsers
    /\ UNCHANGED notAdminVars

\* the confirmation prompt: a mismatch ends the run with process.exit(1)
AskConfirm(r) ==
    /\ runs[r].pc = "askConfirm"
    /\ \E typed \in PasswordsTyped :
          runs' = IF runs[r].password # typed
                  THEN [runs EXCEPT ![r].passwordConfirm = typed, ![r].pc = "exited",
                                    ![r].outcome = "mismatch", ![r].exitCode = 1]
                  ELSE [runs EXCEPT ![r].passwordConfirm = typed, ![r].pc = "connect"]
    /\ UNCHANGED adminUsers
    /\ UNCHANGED notAdminVars

\* a database call that throws: the catch block ends the run with process.exit(1)
Failed(r) ==
    [runs EXCEPT ![r].pc = "exited", ![r].outcome = "error", ![r].exitCode = 1]

\* mysql.createConnection
Connect(r) ==
    /\ runs[r].pc = "connect"
    /\ \E fails \in BOOLEAN :
          runs' = IF fails THEN Failed(r) ELSE [runs EXCEPT ![r].pc = "select"]
    /\ UNCHANGED adminUsers
    /\ UNCHANGED notAdminVars

\* SELECT id, email FROM admin_users WHERE email = ? and the duplicate check
SelectExisting(r) ==
    /\ runs[r].pc = "select"
    /\ \E fails \in BOOLEAN :
          runs' = IF fails THEN Failed(r)
                  ELSE IF EmailExists(adminUsers, runs[r].email)
                  THEN [runs EXCEPT ![r].pc = "exited", ![r].outcome = "duplicate",
                                    ![r].exitCode = 0]
                  ELSE [runs EXCEPT ![r].pc = "insert"]
    /\ UNCHANGED adminUsers
    /\ UNCHANGED notAdminVars

\* generateSalt, hashPassword and INSERT INTO admin_users: the insert throws
\* when the database fails or the email is in the table (UNIQUE)
InsertAdmin(r) ==
    /\ runs[r].pc = "insert"
    /\ \E fails \in BOOLEAN :
          IF fails \/ EmailExists(adminUsers, runs[r].email)
          THEN /\ runs' = Failed(r)
               /\ UNCHANGED adminUsers
          ELSE LET salt == generateSalt(r)
                   row == AdminRow(Len(adminUsers) + 1, runs[r].email,
                                   hashPassword(runs[r].password, salt), salt)
               IN  /\ adminUsers' = Append(adminUsers, row)
                   /\ runs' = [runs EXCEPT ![r].pc = "exited", ![r].outcome = "created",
                                           ![r].exitCode = 0, ![r].insertId = row.id,
                                           ![r].existedAtInsert =
                                               EmailExists(adminUsers, runs[r].email)]
    /\ UNCHANGED notAdminVars

NextAdmin ==
    \E r \in 1..MaxRuns :
        \/ AskEmail(r)
        \/ AskPassword(r)
        \/ AskConfirm(r)
        \/ Connect(r)
        \/ SelectExisting(r)
        \/ InsertAdmin(r)

-----------------------------------------------------------------------------
(* Mobile login rate limiting: AuthenticationService.login                  *)

\* Times are in minutes. The UI state login only writes (isLoading,
\* errorMessage, isAuthenticated, currentUser) is left out.

MaxFailedAttempts == 5    \* "5 - failedLoginAttempts" attempts remaining
LockoutDuration == 15     \* lockoutDuration: 15 * 60 seconds

\* AuthenticationModel.canAttemptLogin: a login may be attempted below the
\* maximum of failed attempts, or once the lockout period has passed
canAttemptLogin(failedAttempts, lastAttempt, now) ==
    \/ failedAttempts < MaxFailedAttempts
    \/ now - lastAttempt >= LockoutDuration

\* what AuthenticationModel.login (or the input validation before it) does
LoginOutcomes == {"success", "invalidCredentials", "networkError"}

AuthIdle ==
    /\ authClock = 0
    /\ failedLoginAttempts = 0
    /\ lastFailedLoginAttempt = None
    /\ isLockedOutFromLogin = FALSE
    /\ lockoutTimer = None
    /\ loginCalls = 0
    /\ lastLogin = None
    /\ invalidInARow = 0

InitAuth == AuthIdle

\* login(email:password:): the lockout check, then the attempt and its outcome
Login ==
    /\ loginCalls < MaxLoginCalls
    /\ loginCalls' = loginCalls + 1
    /\ \E outcome \in LoginOutcomes :
          LET mayAttempt ==
                  \/ lastFailedLoginAttempt = None
                  \/ canAttemptLogin(failedLoginAttempts, lastFailedLoginAttempt[1],
                                     authClock)
              \* the state after the lockout check has let the call through
              attempts0 == IF lastFailedLoginAttempt = None THEN failedLoginAttempts
                           ELSE 0
              locked0 == IF lastFailedLoginAttempt = None THEN isLockedOutFromLogin
                         ELSE FALSE
              timer0 == IF lastFailedLoginAttempt = None THEN lockoutTimer ELSE None
          IN
          IF ~mayAttempt
          THEN /\ isLockedOutFromLogin' = TRUE
               /\ lockoutTimer' = lastFailedLoginAttempt
               /\ lastLogin' = Some([threw |-> "lockedOutFromTooManyAttempts",
                                     contactedBackend |-> FALSE,
                                     attemptsBefore |-> failedLoginAttempts])
               /\ invalidInARow' = 0
               /\ UNCHANGED <<failedLoginAttempts, lastFailedLoginAttempt>>
          ELSE
          CASE outcome = "success" ->
               /\ failedLoginAttempts' = 0
               /\ lastFailedLoginAttempt' = None
               /\ isLockedOutFromLogin' = FALSE
               /\ lockoutTimer' = None
               /\ lastLogin' = Some([threw |-> "nothing", contactedBackend |-> TRUE,
                                     attemptsBefore |-> failedLoginAttempts])
               /\ invalidInARow' = 0
            [] outcome = "invalidCredentials" ->
               /\ failedLoginAttempts' = attempts0 + 1
               /\ lastFailedLoginAttempt' = Some(authClock)
               /\ IF ~canAttemptLogin(attempts0 + 1, authClock, authClock)
                  THEN /\ isLockedOutFromLogin' = TRUE
                       /\ lockoutTimer' = Some(authClock)
                  ELSE /\ isLockedOutFromLogin' = locked0
                       /\ lockoutTimer' = timer0
               /\ lastLogin' = Some([threw |-> "invalidCredentials",
                                     contactedBackend |-> TRUE,
                                     attemptsBefore |-> failedLoginAttempts])
               /\ invalidInARow' = invalidInARow + 1
            [] outcome = "networkError" ->
               /\ failedLoginAttempts' = attempts0
               /\ isLockedOutFromLogin' = locked0
               /\ lockoutTimer' = timer0
               /\ lastLogin' = Some([threw |-> "networkError", contactedBackend |-> TRUE,
                                     attemptsBefore |-> failedLoginAttempts])
               /\ invalidInARow' = 0
               /\ UNCHANGED lastFailedLoginAttempt
    /\ UNCHANGED authClock
    /\ UNCHANGED notAuthVars

\* five minutes pass
AuthTick ==
    /\ authClock + 5 <= MaxAuthClock
    /\ authClock' = authClock + 5
    /\ UNCHANGED <<failedLoginAttempts, lastFailedLoginAttempt, isLockedOutFromLogin,
                   lockoutTimer, loginCalls, lastLogin, invalidInARow>>
    /\ UNCHANGED notAuthVars

\* The lockout timer runs only once startLockoutTimer has been called, which
\* login does where canAttemptLogin has answered false.
NextAuth ==
    \/ Login
    \/ AuthTick

-----------------------------------------------------------------------------
(* Admin session: AuthProvider (AuthContext.tsx) over AdminAPIService        *)

\* initialState of the reducer
initialState ==
    [user |-> None, isAuthenticated |-> FALSE, isLoading |-> TRUE, error |-> None]

\* authReducer
authReducer(state, action) ==
    CASE action.type = "LOGIN_START" ->
            [state EXCEPT !.isLoading = TRUE, !.error = None]
      [] action.type = "LOGIN_SUCCESS" ->
            [state EXCEPT !.user = Some(action.payload), !.isAuthenticated = TRUE,
                          !.isLoading = FALSE, !.error = None]
      [] action.type = "LOGIN_FAILURE" ->
            [state EXCEPT !.user = None, !.isAuthenticated = FALSE,
                          !.isLoading = FALSE, !.error = Some(action.payload)]
      [] action.type = "LOGOUT" ->
            [state EXCEPT !.user = None, !.isAuthenticated = FALSE,
                          !.isLoading = FALSE, !.error = None]
      [] action.type = "CLEAR_ERROR" ->
            [state EXCEPT !.error = None]
      [] action.type = "SET_LOADING" ->
            [state EXCEPT !.isLoading = action.payload]
      [] OTHER -> state

\* the token a previous visit left in localStorage, the tokens the backend issues
StoredToken == "stored-token"
IssuedTokens == {"token-1", "token-2"}

\* the user checkExistingAuth makes up for a valid stored token, the admin of a
\* login response
PlaceholderUser == [id |-> 0, email |-> "admin@safetrade.com"]
LoggedInAdmin == [id |-> 1, email |-> "root@safetrade.com"]

SessionIdle ==
    /\ adminToken = None
    /\ localStorageToken = None
    /\ authState = initialState
    /\ checkPc = "done"
    /\ loginsInFlight = 0
    /\ loginsMade = 0
    /\ sessionActive = FALSE

\* the AdminAPIService constructor reads localStorage; the provider is rendered
\* with initialState and its mount effect has not run yet
InitSession ==
    /\ localStorageToken \in {None, Some(StoredToken)}
    /\ adminToken = localStorageToken
    /\ authState = initialState
    /\ checkPc = "mount"
    /\ loginsInFlight = 0
    /\ loginsMade = 0
    /\ sessionActive = FALSE

\* checkExistingAuth up to its await: SET_LOADING, getToken, and the
\* validate-token request sent when there is a token
CheckExistingAuth ==
    /\ checkPc = "mount"
    /\ IF adminToken # None
       THEN /\ authState' = authReducer(authState, [type |-> "SET_LOADING", payload |-> TRUE])
            /\ checkPc' = "validating"
       ELSE /\ authState' = authReducer(
                               authReducer(authState, [type |-> "SET_LOADING", payload |-> TRUE]),
                               [type |-> "SET_LOADING", payload |-> FALSE])
            /\ checkPc' = "done"
    /\ UNCHANGED <<adminToken, localStorageToken, loginsInFlight, loginsMade, sessionActive>>
    /\ UNCHANGED notSessionVars

\* the answer to GET /admin/validate-token: validateToken returns true, or
\* calls this.logout() and returns false; checkExistingAuth dispatches
\* LOGIN_SUCCESS or LOGOUT
ValidateTokenAnswered ==
    /\ checkPc = "validating"
    /\ checkPc' = "done"
    /\ \E valid \in BOOLEAN :
          IF valid
          THEN /\ authState' = authReducer(authState, [type |-> "LOGIN_SUCCESS",
                                                        payload |-> PlaceholderUser])
               /\ UNCHANGED <<adminToken, localStorageToken>>
          ELSE /\ adminToken' = None
               /\ localStorageToken' = None
               /\ authState' = authReducer(authState, [type |-> "LOGOUT"])
    /\ UNCHANGED <<loginsInFlight, loginsMade, sessionActive>>
    /\ UNCHANGED notSessionVars

\* login(credentials) up to its await: LOGIN_START and POST /admin/login
LoginStart ==
    /\ checkPc # "mount"
    /\ loginsMade < MaxAdminLogins
    /\ loginsMade' = loginsMade + 1
    /\ loginsInFlight' = loginsInFlight + 1
    /\ authState' = authReducer(authState, [type |-> "LOGIN_START"])
    /\ UNCHANGED <<adminToken, localStorageToken, checkPc, sessionActive>>
    /\ UNCHANGED notSessionVars

\* the answer to POST /admin/login: the token is stored and LOGIN_SUCCESS
\* dispatched, or LOGIN_FAILURE dispatched
LoginAnswered ==
    /\ loginsInFlight > 0
    /\ loginsInFlight' = loginsInFlight - 1
    /\ \/ \E issued \in IssuedTokens :
             /\ adminToken' = Some(issued)
             /\ localStorageToken' = Some(issued)
             /\ authState' = authReducer(authState, [type |-> "LOGIN_SUCCESS",
                                                      payload |-> LoggedInAdmin])
             /\ sessionActive' = TRUE
       \/ /\ authState' = authReducer(authState, [type |-> "LOGIN_FAILURE",
                                                    payload |-> "Credenciales inválidas"])
          /\ UNCHANGED <<adminToken, localStorageToken, sessionActive>>
    /\ UNCHANGED <<checkPc, loginsMade>>
    /\ UNCHANGED notSessionVars

\* logout(): adminAPIService.logout() and LOGOUT
Logout ==
    /\ checkPc # "mount"
    /\ adminToken' = None
    /\ localStorageToken' = None
    /\ authState' = authReducer(authState, [type |-> "LOGOUT"])
    /\ sessionActive' = FALSE
    /\ UNCHANGED <<checkPc, loginsInFlight, loginsMade>>
    /\ UNCHANGED notSessionVars

\* clearError(): CLEAR_ERROR
ClearError ==
    /\ checkPc # "mount"
    /\ authState' = authReducer(authState, [type |-> "CLEAR_ERROR"])
    /\ UNCHANGED <<adminToken, localStorageToken, checkPc, loginsInFlight, loginsMade,
                   sessionActive>>
    /\ UNCHANGED notSessionVars

NextSession ==
    \/ CheckExistingAuth
    \/ ValidateTokenAnswered
    \/ LoginStart
    \/ LoginAnswered
    \/ Logout
    \/ ClearError

-----------------------------------------------------------------------------
(* AnonymousAuthGuard.canActivate and the controller methods it guards       *)

\* A header is a sequence of characters; a token is written as one character.

\* text.split(" "): the pieces between the spaces, empty pieces included
RECURSIVE SplitOnSpace(_, _, _)
SplitOnSpace(text, k, piece) ==
    IF k > Len(text) THEN <<piece>>
    ELSE IF text[k] = " " THEN <<piece>> \o SplitOnSpace(text, k + 1, <<>>)
    ELSE SplitOnSpace(text, k + 1, Append(piece, text[k]))

BearerWord == <<"B", "e", "a", "r", "e", "r">>

\* the headers a request may carry: none, a scheme alone, other schemes, a
\* doubled space, and Bearer with each kind of token
Authorizations ==
    {None, Some(<<>>), Some(BearerWord), Some(BearerWord \o <<" ">>),
     Some(<<"B", "a", "s", "i", "c", " ", "a">>),
     Some(<<"T", "o", "k", "e", "n", " ", "b">>),
     Some(<<"b", "e", "a", "r", "e", "r", " ", "a">>),
     Some(BearerWord \o <<" ", " ", "a">>)}
        \cup {Some(BearerWord \o <<" ", t>>) : t \in {"a", "b", "r", "p", "x", "g"}}
        \cup {Some(BearerWord \o <<" ", "a", " ", "z">>)}

\* the payload of the tokens that verify: access tokens of two users, a
\* refresh token and a password-reset token; "x" (expired) and "g" (garbage)
\* make verifyAsync throw
Profile(i) == [id |-> i, email |-> <<"user", i>>, name |-> <<"name", i>>]

Payloads ==
    [a |-> [sub |-> "42", type |-> "access", profile |-> Profile(42)],
     b |-> [sub |-> "7", type |-> "access", profile |-> Profile(7)],
     r |-> [sub |-> "42", type |-> "refresh", profile |-> Profile(42)],
     p |-> [sub |-> "7", type |-> "password_reset", profile |-> Profile(7)]]

\* jwtService.verifyAsync: the payload, or nothing when it throws
verifyAsync(token) ==
    IF Len(token) = 1 /\ token[1] \in DOMAIN Payloads
    THEN Some(Payloads[token[1]]) ELSE None

\* the user the guard sets for a request without a usable Bearer token
AnonymousUser ==
    [userId |-> "anonymous",
     profile |-> [id |-> 0, email |-> "anonymous@safetrade.com",
                  name |-> "Usuario Anónimo"],
     raw |-> [sub |-> "anonymous", type |-> "access",
              profile |-> [id |-> 0, email |-> "anonymous@safetrade.com",
                           name |-> "Usuario Anónimo"]]]

\* the two parts canActivate destructures from the header
SchemeAndToken(header) ==
    LET parts == SplitOnSpace(IF header = None THEN <<>> ELSE header[1], 1, <<>>)
    IN  [scheme |-> Some(parts[1]),
         token |-> IF Len(parts) >= 2 THEN Some(parts[2]) ELSE None]

\* req.user after canActivate, req.user being `before` when it is called
canActivate(header, before) ==
    LET st == SchemeAndToken(header)
    IN  IF st.scheme # Some(BearerWord) \/ st.token = None \/ st.token = Some(<<>>)
        THEN Some(AnonymousUser)
        ELSE LET payload == verifyAsync(st.token[1])
             IN  IF payload = None THEN Some(AnonymousUser)
                 ELSE IF payload[1].type = "access"
                 THEN Some([userId |-> payload[1].sub, profile |-> payload[1].profile,
                            raw |-> payload[1]])
                 ELSE before

GuardedEndpoints == {"tendencias", "analytics"}

GuardIdle ==
    /\ authorization = None
    /\ reqUser = None
    /\ guardPc = "idle"
    /\ canActivateResult = None
    /\ guardedResponse = None

InitGuard ==
    /\ authorization \in Authorizations
    /\ reqUser = None
    /\ guardPc = "request"
    /\ canActivateResult = None
    /\ guardedResponse = None

\* canActivate(ctx): every path returns true
CanActivate ==
    /\ guardPc = "request"
    /\ reqUser' = canActivate(authorization, reqUser)
    /\ canActivateResult' = Some(TRUE)
    /\ guardPc' = "guarded"
    /\ UNCHANGED <<authorization, guardedResponse>>
    /\ UNCHANGED notGuardVars

\* getTendencias / getAnalytics behind the guard: the service call, then
\* req.user.userId is read inside the try block; reading it of an undefined
\* req.user throws and the catch block answers
GuardedHandler ==
    /\ guardPc = "guarded"
    /\ canActivateResult = Some(TRUE)
    /\ \E endpoint \in GuardedEndpoints, period \in Periods, serviceFails \in BOOLEAN :
          guardedResponse' =
              IF serviceFails \/ reqUser = None
              THEN Some([endpoint |-> endpoint, success |-> FALSE, access |-> None,
                         viewing_period |-> None])
              ELSE Some([endpoint |-> endpoint, success |-> TRUE,
                         access |-> Some(
                             IF reqUser[1].userId = "anonymous"
                             THEN IF endpoint = "tendencias" THEN "anónimo" ELSE "público"
                             ELSE "registrado"),
                         viewing_period |->
                             IF endpoint = "tendencias" THEN Some(period) ELSE None])
    /\ guardPc' = "handled"
    /\ UNCHANGED <<authorization, reqUser, canActivateResult>>
    /\ UNCHANGED notGuardVars

NextGuard ==
    \/ CanActivate
    \/ GuardedHandler

-----------------------------------------------------------------------------
(* User registration: UsersController.createUser over the users table        *)

\* the emails of the registration requests
RegistrationEmails == {"ana@example.com", "luis@example.com"}

\* a row of users: id AUTO_INCREMENT, email UNIQUE NOT NULL
UserRow(i, email) == [id |-> i, email |-> email]

\* usersService.findByEmail
findByEmail(rows, email) == \E k \in DOMAIN rows : rows[k].email = email

\* HttpStatus.CONFLICT is 409 and HttpStatus.INTERNAL_SERVER_ERROR 500; a POST
\* handler that returns is answered 201.

NewRegistration(email) ==
    [pc |-> "findByEmail", email |-> email, status |-> 0, message |-> "",
     insertId |-> 0, takenByOther |-> FALSE, storeFailed |-> FALSE]

\* the answer of a request
RegistrationAnswer(reg, status, message) ==
    [reg EXCEPT !.pc = "done", !.status = status, !.message = message]

RegistrationIdle ==
    /\ users = <<>>
    /\ registrations = <<>>

InitRegistration ==
    /\ users \in {<<>>, <<UserRow(1, "ana@example.com")>>}
    /\ registrations \in [1..MaxRegistrations -> {NewRegistration(m) : m \in RegistrationEmails}]

\* findByEmail and the conflict check: 409 when the email is found, 500 when
\* the lookup throws
FindByEmail(r) ==
    /\ registrations[r].pc = "findByEmail"
    /\ \E fails \in BOOLEAN :
          LET reg == registrations[r]
              taken == findByEmail(users, reg.email)
              answer ==
                  IF fails
                  THEN [RegistrationAnswer(reg, 500, "Error interno del servidor")
                            EXCEPT !.storeFailed = TRUE, !.takenByOther = taken]
                  ELSE IF taken
                  THEN [RegistrationAnswer(reg, 409,
                                           "El correo electrónico ya está registrado")
                            EXCEPT !.takenByOther = TRUE]
                  ELSE [reg EXCEPT !.pc = "createUser"]
          IN  registrations' = [registrations EXCEPT ![r] = answer]
    /\ UNCHANGED users
    /\ UNCHANGED notRegistrationVars

\* usersService.createUser and the answer: the insert throws when the store
\* fails or the email is in the table (UNIQUE), and the catch block answers
\* 500; otherwise the row is inserted and the tokens are generated
CreateUser(r) ==
    /\ registrations[r].pc = "createUser"
    /\ \E fails \in BOOLEAN, tokenFails \in BOOLEAN :
          LET reg == registrations[r]
              taken == findByEmail(users, reg.email)
              refused ==
                  [RegistrationAnswer(reg, 500, "Error interno del servidor")
                      EXCEPT !.storeFailed = fails, !.takenByOther = taken]
              inserted ==
                  [(IF tokenFails
                    THEN RegistrationAnswer(reg, 500, "Error interno del servidor")
                    ELSE RegistrationAnswer(reg, 201, "Usuario registrado exitosamente"))
                      EXCEPT !.insertId = Len(users) + 1]
          IN  IF fails \/ taken
              THEN /\ registrations' = [registrations EXCEPT ![r] = refused]
                   /\ UNCHANGED users
              ELSE /\ users' = Append(users, UserRow(Len(users) + 1, reg.email))
                   /\ registrations' = [registrations EXCEPT ![r] = inserted]
    /\ UNCHANGED notRegistrationVars

NextRegistration ==
    \E r \in 1..MaxRegistrations :
        \/ FindByEmail(r)
        \/ CreateUser(r)

-----------------------------------------------------------------------------
(* Specifications: one per component, the other components idle *)

InitSpecAlert ==
    InitAlert /\ TransformIdle /\ CacheIdle /\ TrendIdle /\ AlertaIdle /\ ListIdle
        /\ PopupIdle /\ AdminIdle
        /\ AuthIdle
        /\ SessionIdle
        /\ GuardIdle
        /\ RegistrationIdle

SpecAlert == InitSpecAlert /\ [][NextAlert]_vars

InitSpecTransform ==
    InitTransform /\ AlertIdle /\ CacheIdle /\ TrendIdle /\ AlertaIdle /\ ListIdle
        /\ PopupIdle /\ AdminIdle
        /\ AuthIdle
        /\ SessionIdle
        /\ GuardIdle
        /\ RegistrationIdle

SpecTransform == InitSpecTransform /\ [][NextTransform]_vars

InitSpecCache ==
    InitCache /\ AlertIdle /\ TransformIdle /\ TrendIdle /\ AlertaIdle /\ ListIdle
        /\ PopupIdle /\ AdminIdle
        /\ AuthIdle
        /\ SessionIdle
        /\ GuardIdle
        /\ RegistrationIdle

SpecCache == InitSpecCache /\ [][NextCache]_vars

InitSpecCatalog ==
    InitCache /\ AlertIdle /\ TransformIdle /\ TrendIdle /\ AlertaIdle /\ ListIdle
        /\ PopupIdle /\ AdminIdle
        /\ AuthIdle
        /\ SessionIdle
        /\ GuardIdle
        /\ RegistrationIdle

SpecCatalog == InitSpecCatalog /\ [][NextCatalog]_vars

InitSpecTrend ==
    InitTrend /\ AlertIdle /\ TransformIdle /\ CacheIdle /\ AlertaIdle /\ ListIdle
        /\ PopupIdle /\ AdminIdle
        /\ AuthIdle
        /\ SessionIdle
        /\ GuardIdle
        /\ RegistrationIdle

SpecTrend == InitSpecTrend /\ [][NextTrend]_vars

InitSpecAlerta ==
    InitAlerta /\ AlertIdle /\ TransformIdle /\ CacheIdle /\ TrendIdle /\ ListIdle
        /\ PopupIdle /\ AdminIdle
        /\ AuthIdle
        /\ SessionIdle
        /\ GuardIdle
        /\ RegistrationIdle

SpecAlerta == InitSpecAlerta /\ [][NextAlerta]_vars

InitSpecList ==
    InitList /\ AlertIdle /\ TransformIdle /\ CacheIdle /\ TrendIdle /\ AlertaIdle
        /\ PopupIdle /\ AdminIdle
        /\ AuthIdle
        /\ SessionIdle
        /\ GuardIdle
        /\ RegistrationIdle

SpecList == InitSpecList /\ [][NextList]_vars

InitSpecPopup ==
    InitPopup /\ AlertIdle /\ TransformIdle /\ CacheIdle /\ TrendIdle /\ AlertaIdle
        /\ ListIdle /\ AdminIdle
        /\ AuthIdle
        /\ SessionIdle
        /\ GuardIdle
        /\ RegistrationIdle

SpecPopup == InitSpecPopup /\ [][NextPopup]_vars

InitSpecAdmin ==
    InitAdmin /\ AlertIdle /\ TransformIdle /\ CacheIdle /\ TrendIdle /\ AlertaIdle
        /\ ListIdle /\ PopupIdle
        /\ AuthIdle
        /\ SessionIdle
        /\ GuardIdle
        /\ RegistrationIdle

SpecAdmin == InitSpecAdmin /\ [][NextAdmin]_vars

InitSpecAuth ==
    InitAuth
        /\ TransformIdle
        /\ CacheIdle
        /\ AlertIdle
        /\ TrendIdle
        /\ AlertaIdle
        /\ ListIdle
        /\ PopupIdle
        /\ AdminIdle
        /\ SessionIdle
        /\ GuardIdle
        /\ RegistrationIdle

SpecAuth == InitSpecAuth /\ [][NextAuth]_vars

InitSpecSession ==
    InitSession
        /\ TransformIdle
        /\ CacheIdle
        /\ AlertIdle
        /\ TrendIdle
        /\ AlertaIdle
        /\ ListIdle
        /\ PopupIdle
        /\ AdminIdle
        /\ AuthIdle
        /\ GuardIdle
        /\ RegistrationIdle

SpecSession == InitSpecSession /\ [][NextSession]_vars

InitSpecGuard ==
    InitGuard
        /\ TransformIdle
        /\ CacheIdle
        /\ AlertIdle
        /\ TrendIdle
        /\ AlertaIdle
        /\ ListIdle
        /\ PopupIdle
        /\ AdminIdle
        /\ AuthIdle
        /\ SessionIdle
        /\ RegistrationIdle

SpecGuard == InitSpecGuard /\ [][NextGuard]_vars

InitSpecRegistration ==
    InitRegistration
        /\ TransformIdle
        /\ CacheIdle
        /\ AlertIdle
        /\ TrendIdle
        /\ AlertaIdle
        /\ ListIdle
        /\ PopupIdle
        /\ AdminIdle
        /\ AuthIdle
        /\ SessionIdle
        /\ GuardIdle

SpecRegistration == InitSpecRegistration /\ [][NextRegistration]_vars

-----------------------------------------------------------------------------
(* Claims about the alert-level classifier *)

\* The first attack-trend entry's percentage (tenths of a percent); an empty
\* attack_trends list counts as 0.
FirstTrendPct == IF tendencias.attack_trends = <<>> THEN 0 ELSE Head(tendencias.attack_trends)

\* highImpactPct > k, for highImpactPct = highest_impact_count / total_reports * 100
\* and total_reports > 0
HighImpactPctOver(k) ==
    analytics.highest_impact_count * 100 > k * analytics.total_reports

\* C1: for total_reports > 0 the classifier returns rojo exactly when
\* highImpactPct > 40 or topAttackPct > 60, otherwise amarillo exactly when
\* highImpactPct > 20 or topAttackPct > 40, otherwise verde; all comparisons
\* are strict.
C1_ThresholdTable ==
    (alertPc = "done" /\ analytics.total_reports > 0) =>
        /\ (nivel = "rojo") <=> (HighImpactPctOver(40) \/ FirstTrendPct > 600)
        /\ (nivel = "amarillo") <=>
               /\ ~(HighImpactPctOver(40) \/ FirstTrendPct > 600)
               /\ (HighImpactPctOver(20) \/ FirstTrendPct > 400)
        /\ (nivel = "verde") <=>
               /\ ~(HighImpactPctOver(40) \/ FirstTrendPct > 600)
               /\ ~(HighImpactPctOver(20) \/ FirstTrendPct > 400)

\* An evaluation on both red boundaries at once: exactly 40% high impact and
\* exactly 60.0% top attack, classified amarillo.
C1_Witness ==
    /\ alertPc = "done"
    /\ analytics.total_reports > 0
    /\ analytics.highest_impact_count * 100 = 40 * analytics.total_reports
    /\ FirstTrendPct = 600
    /\ nivel = "amarillo"

\* C2: with total_reports = 0 the classifier returns verde, whatever trend
\* summary is passed with it.
C2_ZeroTotalIsVerde ==
    (alertPc = "done" /\ analytics.total_reports = 0) => nivel = "verde"

-----------------------------------------------------------------------------
(* Claims about the report/filter transformer *)

\* every catalog id the filter set carries exists in the catalog snapshot
RefsExist(cat, f) ==
    /\ f.status # None => FindById(cat.statuses, f.status[1]) # None
    /\ f.attack_type # None => FindById(cat.attackTypes, f.attack_type[1]) # None
    /\ f.impact # None => FindById(cat.impacts, f.impact[1]) # None

\* C8: for every normalized filter set f whose status, attack_type and impact
\* ids exist in the catalog snapshot, fromLegacyFilters(toLegacyFilters(f))
\* equals f field for field.
C8_FilterRoundTrip ==
    (trPc = "done" /\ normalizedFilters # None
        /\ RefsExist(catalogData, normalizedFilters[1]))
    => normalized = normalizedFilters

\* C9: for a report whose attack_type, impact or status id is not in the
\* supplied catalog, the legacy attack_type, impact_level or status of both
\* toLegacyReport and toLegacyReportSummary is the string 'Desconocido'.
C9_UnknownIdIsDesconocido ==
    (trPc = "done" /\ report # None) =>
        LET r == report[1]
            full == legacyReport[1]
            summary == legacyReportSummary[1]
        IN  /\ FindById(catalogData.attackTypes, r.attack_type) = None =>
                  (full.attack_type = "Desconocido" /\ summary.attack_type = "Desconocido")
            /\ FindById(catalogData.impacts, r.impact) = None =>
                  (full.impact_level = "Desconocido" /\ summary.impact_level = "Desconocido")
            /\ FindById(catalogData.statuses, r.status) = None =>
                  (full.status = "Desconocido" /\ summary.status = "Desconocido")

\* the normalized field fromLegacyFilters must produce for a legacy name:
\* unset when no entry has that name, the entry's id when one has
FieldAsClaimed(entries, legacyName, field) ==
    /\ (\A k \in DOMAIN entries : legacyName # Some(entries[k].name)) => field = None
    /\ \A k \in DOMAIN entries :
          legacyName = Some(entries[k].name) => field = Some(entries[k].id)

\* C10: fromLegacyFilters always returns, and for each of status, attackType
\* and impactLevel the normalized field is unset when the legacy name matches
\* no catalog entry and is the matching entry's id when it matches one.
C10_FromLegacyFilters ==
    (trPc = "done" /\ legacyFilters # None) =>
        /\ normalized # None
        /\ FieldAsClaimed(catalogData.statuses, legacyFilters[1].status, normalized[1].status)
        /\ FieldAsClaimed(catalogData.attackTypes, legacyFilters[1].attackType,
                          normalized[1].attack_type)
        /\ FieldAsClaimed(catalogData.impacts, legacyFilters[1].impactLevel,
                          normalized[1].impact)

\* A direct fromLegacyFilters call with one name that matches no entry of the
\* snapshot (left unset) and one that matches (set to the entry's id).
C10_Witness ==
    /\ trPc = "done" /\ normalizedFilters = None /\ legacyFilters # None
    /\ catalogData = createDefaultCatalogs
    /\ legacyFilters[1].status = Some("archivado") /\ normalized[1].status = None
    /\ legacyFilters[1].attackType = Some("otro") /\ normalized[1].attack_type = Some(6)
    /\ legacyFilters[1].impactLevel = Some("alto") /\ normalized[1].impact = None

-----------------------------------------------------------------------------
(* Claims about the catalog cache *)

Done(i) == calls[i].pc = "done"

\* call i had returned before call j started
Before(i, j) == i < j /\ i \notin calls[j].inflightAtStart

\* the catalog names an id can resolve to: its name in some catalog
NamesOfId(op, id) ==
    {MapOf(op, LookupMapsOf[n])[id] :
        n \in {m \in CatalogNames : id \in DOMAIN MapOf(op, LookupMapsOf[m])}}

\* C3: getAttackTypeName, getImpactName and getStatusName never fail: after
\* any sequence of successful or failed fetches each returns the catalog name
\* of the id or the string 'Desconocido'.
C3_NameResolutionNeverFails ==
    \A i \in DOMAIN calls :
        (Done(i) /\ calls[i].op \in NameOps) =>
            /\ ~calls[i].raised
            /\ calls[i].retName # None
            /\ calls[i].retName[1] \in NamesOfId(calls[i].op, calls[i].id) \cup {"Desconocido"}

\* C4 as stated: of any two getCatalogs calls made less than CACHE_TIMEOUT
\* apart with no refreshCatalogs between them, the second returns the content
\* of the first and performs no fetch.
C4_AnyTwoCallsWithinTTL ==
    \A i, j \in DOMAIN calls :
        (/\ Before(i, j) /\ Done(j)
         /\ calls[i].op = "getCatalogs" /\ calls[j].op = "getCatalogs"
         /\ calls[j].now - calls[i].now < CACHE_TIMEOUT
         /\ \A k \in (i + 1)..(j - 1) : calls[k].op # "refreshCatalogs")
        => (calls[j].fetches = 0 /\ calls[j].retCatalog = calls[i].retCatalog)

\* C4 amended: when the first of two getCatalogs calls made the successful
\* fetch that last filled the cache before the second starts (no
\* refreshCatalogs and no later completed fetch in between), and the second
\* starts less than CACHE_TIMEOUT after the first started, the second returns
\* the content of the first and performs no fetch.
C4_WithinTTLOfTheFill ==
    \A i, j \in DOMAIN calls :
        (/\ Done(j)
         /\ calls[i].op = "getCatalogs" /\ calls[j].op = "getCatalogs"
         /\ calls[j].fillerAtStart = i
         /\ calls[j].now - calls[i].now < CACHE_TIMEOUT)
        => (calls[j].fetches = 0 /\ calls[j].retCatalog = calls[i].retCatalog)

\* A getCatalogs call served from the cache one millisecond before the cache
\* another getCatalogs call filled expires.
C4_Witness ==
    \E i, j \in DOMAIN calls :
        /\ Done(j)
        /\ calls[i].op = "getCatalogs" /\ calls[j].op = "getCatalogs"
        /\ calls[j].fillerAtStart = i
        /\ calls[i].fetches = 1
        /\ calls[j].now - calls[i].now = CACHE_TIMEOUT - 1
        /\ calls[j].fetches = 0
        /\ calls[j].retCatalog = calls[i].retCatalog

Reads == {"getCatalogs", "getCatalogMaps"} \cup NameOps

\* C5: every catalog read (getCatalogs, getCatalogMaps, a name resolution)
\* made CACHE_TIMEOUT or more after the last successful fetch performs exactly
\* one fetch before it returns.
C5_StaleReadRefetches ==
    \A i \in DOMAIN calls :
        (Done(i) /\ calls[i].op \in Reads /\ calls[i].staleAtStart)
        => calls[i].fetches = 1

\* C6: when its fetch fails or the answer is malformed, getCatalogs does not
\* raise and returns the built-in default catalog of six attack types, four
\* impacts and four statuses.
C6_FallbackToDefault ==
    \A i \in DOMAIN calls :
        (Done(i) /\ calls[i].op = "getCatalogs" /\ calls[i].fetched = "error") =>
            /\ ~calls[i].raised
            /\ calls[i].retCatalog # None
            /\ Catalog(calls[i].retCatalog[1]) = createDefaultCatalogs
            /\ Len(Catalog(calls[i].retCatalog[1]).attackTypes) = 6
            /\ Len(Catalog(calls[i].retCatalog[1]).impacts) = 4
            /\ Len(Catalog(calls[i].retCatalog[1]).statuses) = 4

\* A getCatalogs call whose fetch failed while an expired cache held another
\* catalog, returning the default catalog.
C6_Witness ==
    \E i \in DOMAIN calls :
        /\ Done(i) /\ calls[i].op = "getCatalogs" /\ calls[i].fetched = "error"
        /\ calls[i].pre.cache # None
        /\ ~calls[i].raised
        /\ calls[i].retCatalog = Some(DefaultName)

\* calls i and j are two overlapping getCatalogs calls that found the cache
\* cold or expired, both have returned, and no other call was under way or
\* has started since
OverlappingPair(i, j) ==
    /\ j = i + 1 /\ Len(calls) = j
    /\ calls[i].op = "getCatalogs" /\ calls[j].op = "getCatalogs"
    /\ calls[i].inflightAtStart = {} /\ calls[j].inflightAtStart = {i}
    /\ Done(i) /\ Done(j)

\* the cache fields are as call k alone would have left them
AsAfterAlone(k, pre) ==
    IF calls[k].fetched = "error"
    THEN /\ catalogCache = pre.cache /\ catalogMaps = pre.maps /\ lastCacheTime = pre.last
    ELSE /\ catalogCache = Some(calls[k].fetched)
         /\ catalogMaps = Some(calls[k].fetched)
         /\ lastCacheTime = calls[k].now

\* C7 as stated: after two overlapping getCatalogs calls on a cold or expired
\* cache both have returned the same content and the cache fields are as
\* after a single call.
C7_OverlappingCallsAgree ==
    \A i, j \in DOMAIN calls :
        OverlappingPair(i, j) =>
            /\ calls[i].retCatalog = calls[j].retCatalog
            /\ AsAfterAlone(i, calls[i].pre) \/ AsAfterAlone(j, calls[i].pre)

\* C7 amended: the same, for two overlapping calls whose fetches are answered
\* alike (the same catalog to both, or both failing).
C7_AlikeAnswersAgree ==
    \A i, j \in DOMAIN calls :
        (OverlappingPair(i, j) /\ calls[i].fetched = calls[j].fetched) =>
            /\ calls[i].retCatalog = calls[j].retCatalog
            /\ calls[i].retCatalog =
                   IF calls[i].fetched = "error" THEN Some(DefaultName)
                   ELSE Some(calls[i].fetched)
            /\ AsAfterAlone(i, calls[i].pre) \/ AsAfterAlone(j, calls[i].pre)

\* Two overlapping getCatalogs calls started at different instants on an
\* expired cache, both answered with the same catalog, other than the one the
\* cache held.
C7_Witness ==
    \E i, j \in DOMAIN calls :
        /\ OverlappingPair(i, j)
        /\ calls[i].pre.cache # None
        /\ calls[i].fetched \in ServerNames
        /\ calls[i].fetched = calls[j].fetched
        /\ Some(calls[i].fetched) # calls[i].pre.cache
        /\ calls[i].now # calls[j].now
        /\ catalogCache = Some(calls[i].fetched)

-----------------------------------------------------------------------------
(* Claims about the trend aggregator *)

RECURSIVE SumOfPercentages(_, _)
SumOfPercentages(dist, n) ==
    IF n = 0 THEN 0 ELSE dist[n].percentage + SumOfPercentages(dist, n - 1)

Abs(x) == IF x < 0 THEN 0 - x ELSE x

\* the trend summary of a request that was answered with one
Answered == trendPc = "done" /\ trendResponse[1].success
Summary == trendResponse[1].data[1]

GroupsWithReports(dist) == Cardinality({r \in DOMAIN dist : dist[r].count > 0})

\* C11 as stated: for a non-empty window the percentages (in tenths of a
\* percent) of attackTypeDistribution, and those of impactDistribution, sum
\* to 100 within 0.1.
C11_SumWithinOneTenth ==
    (Answered /\ Len(windowReports) > 0) =>
        /\ Abs(SumOfPercentages(Summary.attackTypeDistribution,
                                 Len(Summary.attackTypeDistribution)) - 1000) <= 1
        /\ Abs(SumOfPercentages(Summary.impactDistribution,
                                 Len(Summary.impactDistribution)) - 1000) <= 1

\* C11 amended: for a non-empty window the percentages of each distribution
\* sum to 100 within 0.05 for every group that has reports.
C11_SumWithinHalfTenthPerGroup ==
    (Answered /\ Len(windowReports) > 0) =>
        /\ 2 * Abs(SumOfPercentages(Summary.attackTypeDistribution,
                                     Len(Summary.attackTypeDistribution)) - 1000)
               <= GroupsWithReports(Summary.attackTypeDistribution)
        /\ 2 * Abs(SumOfPercentages(Summary.impactDistribution,
                                     Len(Summary.impactDistribution)) - 1000)
               <= GroupsWithReports(Summary.impactDistribution)

\* Six reports, one of each attack type: six shares of 16.7 sum to 100.2.
C11_Witness ==
    /\ Answered
    /\ Len(windowReports) = 6
    /\ GroupsWithReports(Summary.attackTypeDistribution) = 6
    /\ SumOfPercentages(Summary.attackTypeDistribution, 6) = 1002

\* C12: for an empty report set getTendencias, for each period, does not
\* raise and returns distributions whose every count and percentage is 0, so
\* that the percentages sum to 0.
C12_EmptyWindowAllZero ==
    (trendPc = "done" /\ windowReports = <<>> /\ trendResponse[1].data # None) =>
        /\ ~trendResponse[1].raised
        /\ trendResponse[1].success
        /\ \A r \in DOMAIN Summary.attackTypeDistribution :
              /\ Summary.attackTypeDistribution[r].count = 0
              /\ Summary.attackTypeDistribution[r].percentage = 0
        /\ \A r \in DOMAIN Summary.impactDistribution :
              /\ Summary.impactDistribution[r].count = 0
              /\ Summary.impactDistribution[r].percentage = 0
        /\ SumOfPercentages(Summary.attackTypeDistribution,
                            Len(Summary.attackTypeDistribution)) = 0
        /\ SumOfPercentages(Summary.impactDistribution,
                            Len(Summary.impactDistribution)) = 0

\* The 90-day trends of an empty store, answered with six attack-type and
\* four impact entries.
C12_Witness ==
    /\ Answered
    /\ windowReports = <<>>
    /\ Summary.period = "90days"
    /\ Len(Summary.attackTypeDistribution) = 6
    /\ Len(Summary.impactDistribution) = 4

\* C13: the main threat is the name of the attack type with the highest
\* report count in the window, and of the attack types that share the
\* highest count the one with the lowest catalog id.
C13_MainThreat ==
    Answered =>
        \E e \in DOMAIN TrendCatalog.attackTypes :
            /\ TrendCatalog.attackTypes[e].name = Summary.mainThreat
            /\ \A o \in DOMAIN TrendCatalog.attackTypes :
                  LET ce == CountOf(windowReports, "attackType", TrendCatalog.attackTypes[e].id)
                      co == CountOf(windowReports, "attackType", TrendCatalog.attackTypes[o].id)
                  IN  /\ co <= ce
                      /\ (co = ce) =>
                            TrendCatalog.attackTypes[e].id <= TrendCatalog.attackTypes[o].id

\* SMS (id 2) and redes_sociales (id 5) share the highest count: SMS is the
\* main threat.
C13_Witness ==
    /\ Answered
    /\ CountOf(windowReports, "attackType", 2) = 2
    /\ CountOf(windowReports, "attackType", 5) = 2
    /\ CountOf(windowReports, "attackType", 1) = 1
    /\ Len(windowReports) = 5
    /\ Summary.mainThreat = "SMS"

-----------------------------------------------------------------------------
(* Claims about the community alert endpoint *)

Alerted == alertaPc = "done" /\ alertaResponse[1].alerta # None
Alerta == alertaResponse[1].alerta[1]
Parts(m) == {m[k] : k \in DOMAIN m}

\* C15 as stated: for each of the three levels the message is the level's
\* template and contains the main-threat label of the trend summary.
C15_EveryMessageNamesMainThreat ==
    Alerted => alertaTendencias[1].summary.main_threat \in Parts(Alerta.mensaje)

\* C15 amended: the message is a fixed template chosen by the level alone;
\* for rojo and amarillo it is the level's two fixed texts around the
\* main-threat label, for verde it is one fixed text without the label.
C15_MessagePerLevel ==
    Alerted =>
        LET m == Alerta.mensaje
            threat == alertaTendencias[1].summary.main_threat
        IN  CASE Alerta.nivel = "rojo" ->
                    /\ Len(m) = 3 /\ m[2] = threat
                    /\ m[1] = RojoPrefix /\ m[3] = RojoSuffix
              [] Alerta.nivel = "amarillo" ->
                    /\ Len(m) = 3 /\ m[2] = threat
                    /\ m[1] = AmarilloPrefix /\ m[3] = AmarilloSuffix
              [] OTHER ->
                    /\ m = <<VerdeText>>
                    /\ threat \notin Parts(m)

\* An amarillo alert whose message names the main threat SMS.
C15_Witness ==
    /\ Alerted
    /\ Alerta.nivel = "amarillo"
    /\ alertaTendencias[1].summary.main_threat = "SMS"
    /\ Alerta.mensaje = <<AmarilloPrefix, "SMS", AmarilloSuffix>>

\* C16: getAlertaComunitaria never raises and always yields an alert whose
\* nivel is verde, amarillo or rojo, also when the trend or the analytics
\* computation fails or the report set is empty.
C16_AlwaysAnAlertState ==
    alertaPc = "done" =>
        /\ ~alertaResponse[1].raised
        /\ alertaResponse[1].alerta # None
        /\ Alerta.nivel \in {"verde", "amarillo", "rojo"}

-----------------------------------------------------------------------------
(* Claims about the mobile report list *)

Rows(reports) == {reports[k] : k \in DOMAIN reports}

\* the search query in force: none when searchQuery is blank
QueryInForce == ~TrimmedIsEmpty(searchQuery)

\* report r has the query in its attack-type display name, its attackOrigin
\* or its description, letter case aside
HasQuery(r) ==
    LET q == lowercased(searchQuery)
        In(text) == \E k \in 1..Len(text) :
                        /\ k + Len(q) - 1 <= Len(text)
                        /\ \A j \in 1..Len(q) : Lower(text[k + j - 1]) = q[j]
    IN  \/ In(AttackTypeDisplayName(r.attackType))
        \/ (r.attackOrigin # None /\ In(r.attackOrigin[1]))
        \/ (r.description # None /\ In(r.description[1]))

\* C17: after applyFilters with a status filter selected, filteredReports
\* holds only reports of allReports with that status, and each such report
\* that passes the search query in force; it may be empty.
C17_StatusFilter ==
    (filtersApplied /\ selectedFilter \in StatusFilters) =>
        /\ \A r \in Rows(filteredReports) :
              r \in Rows(allReports) /\ r.status = selectedFilter
        /\ \A r \in Rows(allReports) :
              (r.status = selectedFilter /\ (QueryInForce => HasQuery(r)))
                  => r \in Rows(filteredReports)
        /\ Cardinality(Rows(filteredReports)) = Len(filteredReports)

\* The filter nuevo applied to a list that holds a nuevo and a revisado
\* report: only the nuevo report is shown.
C17_Witness ==
    /\ filtersApplied
    /\ selectedFilter = "nuevo"
    /\ Len(allReports) = 2
    /\ \E r \in Rows(allReports) : r.status = "revisado"
    /\ Len(filteredReports) = 1
    /\ filteredReports[1].status = "nuevo"

\* the base dataset the selected filter chooses
BaseRows ==
    CASE selectedFilter = "todos" -> Rows(allReports)
      [] selectedFilter = "mis_reportes" -> Rows(userReports)
      [] OTHER -> {r \in Rows(allReports) : r.status = selectedFilter}

\* C18: after applyFilters with a non-blank searchQuery, filteredReports
\* holds exactly the reports of the base set whose attack-type display name,
\* attackOrigin or description contains the query, letter case aside: none
\* when the query occurs in no report of the base set, at least one when it
\* occurs in the origin or description of one.
C18_Search ==
    (filtersApplied /\ QueryInForce) =>
        /\ Rows(filteredReports) = {r \in BaseRows : HasQuery(r)}
        /\ Cardinality(Rows(filteredReports)) = Len(filteredReports)
        /\ (\A r \in BaseRows : ~HasQuery(r)) => filteredReports = <<>>
        /\ (\E r \in BaseRows :
                LET q == lowercased(searchQuery)
                IN  \/ (r.attackOrigin # None /\ contains(lowercased(r.attackOrigin[1]), q))
                    \/ (r.description # None /\ contains(lowercased(r.description[1]), q)))
              => filteredReports # <<>>

\* The query PH typed in capitals finds the report whose description has
\* "ph" in small letters and leaves out one without the text.
C18_Witness ==
    /\ filtersApplied
    /\ searchQuery = <<"P", "H">>
    /\ selectedFilter = "todos"
    /\ Len(allReports) = 2
    /\ Len(filteredReports) = 1
    /\ filteredReports[1].description = Some(<<"p", "h">>)

-----------------------------------------------------------------------------
(* Claims about the community alert popup *)

\* C19: a new view model has selectedFilter = todos and showingPopup = false
\* (checked of the state init() leaves), and showingPopup becomes true only
\* through togglePopup, showPopup or a loaded community alert whose nivel is
\* rojo, letter case aside; an alert of another level or a failed load leaves
\* showingPopup as it is.
C19_PopupOnlyOnDemandOrRojo ==
    /\ [](popupOp = "init" => (selectedFilter = "todos" /\ ~showingPopup))
    /\ [][(~showingPopup /\ showingPopup') =>
              \/ popupOp' \in {"togglePopup", "showPopup"}
              \/ /\ popupOp' = "alertLoaded"
                 /\ communityAlert' # None
                 /\ lowercasedNivel(communityAlert'[1].nivel) = "rojo"]_vars
    /\ [][(\/ popupOp' = "alertFailed"
           \/ /\ popupOp' = "alertLoaded"
              /\ lowercasedNivel(communityAlert'[1].nivel) \in {"amarillo", "verde"})
              => showingPopup' = showingPopup]_vars

\* An alert of level ROJO, written in capitals, was loaded and the popup shows.
C19_Witness ==
    /\ popupOp = "alertLoaded"
    /\ communityAlert = Some([nivel |-> "ROJO"])
    /\ showingPopup
    /\ dismissTimer

-----------------------------------------------------------------------------
(* Claims about the create-admin script *)

-----------------------------------------------------------------------------
(* Claims about the mobile login rate limiting *)

\* C22: after five login calls in a row that failed with invalidCredentials,
\* and less than 15 minutes after the last failed attempt, the service is
\* locked out: isLockedOutFromLogin is true.
C22_LockedOutAfterFiveFailures ==
    (/\ invalidInARow >= 5
     /\ lastFailedLoginAttempt # None
     /\ authClock - lastFailedLoginAttempt[1] < 15)
        => isLockedOutFromLogin

-----------------------------------------------------------------------------
(* Claims about the admin session *)

\* C23: once a login has succeeded the admin stays authenticated until logout
\* is called: isAuthenticated is true and the token of AdminAPIService is not
\* null, whatever the mount-time validation of a stored token does meanwhile.
C23_SessionLastsUntilLogout ==
    sessionActive => (authState.isAuthenticated /\ adminToken # None)

-----------------------------------------------------------------------------
(* Claims about the anonymous-or-authenticated guard *)

\* the character of the token of a header that reads "Bearer <token>" with a
\* token that verifies, nothing otherwise
VerifiedBearerToken ==
    IF /\ authorization # None
       /\ Len(authorization[1]) >= 8
       /\ SubSeq(authorization[1], 1, 7) = BearerWord \o <<" ">>
       /\ authorization[1][8] \in DOMAIN Payloads
       /\ (Len(authorization[1]) = 8 \/ authorization[1][9] = " ")
    THEN Some(authorization[1][8]) ELSE None

\* C24: canActivate always returns true and always leaves req.user set: to
\* the identity of the token when a Bearer token verifies as an access token,
\* and to the anonymous identity (userId 'anonymous', profile id 0) in every
\* other case, a verified token of another type included.
C24_UserAlwaysSet ==
    guardPc \in {"guarded", "handled"} =>
        /\ canActivateResult = Some(TRUE)
        /\ reqUser # None
        /\ IF VerifiedBearerToken # None
              /\ Payloads[VerifiedBearerToken[1]].type = "access"
           THEN /\ reqUser[1].userId = Payloads[VerifiedBearerToken[1]].sub
                /\ reqUser[1].profile = Payloads[VerifiedBearerToken[1]].profile
           ELSE /\ reqUser[1].userId = "anonymous"
                /\ reqUser[1].profile.id = 0

-----------------------------------------------------------------------------
(* Claims about user registration *)

\* C25: a registration request whose email belongs to a user when the request
\* is answered, the user being there before or registered meanwhile by a
\* concurrent request, ends with 409 'El correo electrónico ya está
\* registrado' (the store answering every call), and no two users share an
\* email.
C25_DuplicateEndsInConflict ==
    /\ \A r \in DOMAIN registrations :
          (/\ registrations[r].pc = "done"
           /\ registrations[r].takenByOther
           /\ ~registrations[r].storeFailed)
              => /\ registrations[r].status = 409
                 /\ registrations[r].message = "El correo electrónico ya está registrado"
    /\ \A j, k \in DOMAIN users : users[j].email = users[k].email => j = k

=============================================================================
